---------------------------- MODULE Spec2Model ----------------------------
(***************************************************************************)
(* A model of the arkparser binary decoding engine: the positional binary  *)
(* reader, the format detector, the name readers, the property registry,   *)
(* the object-header framers and the world-save loaders.                   *)
(*                                                                         *)
(* Conventions.  A byte buffer is a sequence of integers 0..255.  A text   *)
(* (Python str) is the sequence of its code points, so Latin-1 decoding    *)
(* maps a byte sequence to the same sequence of numbers and "None" is      *)
(* <<78, 111, 110, 101>>.  Python's stream positions are 0-based; the      *)
(* byte at stream offset p is data[p + 1].  Integers wider than 31 bits    *)
(* and floating point values are kept as their little-endian byte          *)
(* sequence (the bit pattern read).  Every reading operator returns a      *)
(* record [st, val, pos]: st is "ok" or the name of the exception raised,  *)
(* val the value returned (always a sequence), pos the stream position     *)
(* afterwards.                                                             *)
(***************************************************************************)
EXTENDS Integers, Sequences, FiniteSets, TLC

VARIABLES
    data,       \* BinaryReader._stream contents (reader specifications)
    position,   \* BinaryReader.position
    last,       \* the last operation applied and its outcome
    source,     \* detect_format's argument: raw bytes, or a path (its suffix)
    name_table, \* the name table handed to the readers: none, a list or a dict
    properties, \* read_properties: the list built so far
    framing,    \* read_properties: its is_asa and worldsave_format arguments
    written,    \* what the writer of the stream put in it
    load        \* a file being loaded: its kind, header fields, objects, errors

vars == <<data, position, last, source, name_table, properties, framing, written, load>>

\* The variables the reader's own methods leave alone.
nonReaderVars == <<source, name_table, properties, framing, written, load>>

\* No path: the reader was built from bytes.
NoSource == [kind |-> "bytes", suffix |-> <<>>]

\* name_table = None.  A list table is a sequence of names, a dict table a
\* function from integer keys to names.
NoTable == [kind |-> "none", names |-> <<>>]

NoFraming == [is_asa |-> FALSE, worldsave_format |-> FALSE]
NothingWritten == [valid |-> FALSE, count |-> 0, end |-> 0]

\* No file is being loaded.  (failed is a history of the loops over the
\* objects: for each decode that raised, the id of the object and the error;
\* the id is 0 - 1 when no object had been made.  container is <<>> for
\* None, else a one-element tuple.  conn is the SQLite connection of a
\* Modern world save: "none" before sqlite3.connect, then "open", and
\* "closed" after conn.close().)
NoLoad ==
    [kind |-> "none", pc |-> "idle", version |-> 0, is_asa |-> FALSE,
     properties_block_offset |-> 0, name_table_offset |-> 0, count |-> 0,
     table |-> [kind |-> "none", names |-> <<>>],
     objects |-> <<>>, i |-> 0, rows |-> <<>>, parse_errors |-> <<>>, failures |-> 0,
     result |-> "none", at |-> "none", header_ends |-> <<>>,
     db |-> [header |-> <<>>, transforms |-> <<>>], locations |-> <<>>, pending |-> <<>>,
     failed |-> <<>>, container |-> <<>>, conn |-> "none",
     made |-> [starts |-> <<>>, ends |-> <<>>, exact |-> FALSE, sound |-> <<>>]]

\* Nothing is being decoded.
PropsIdle ==
    properties = <<>> /\ framing = NoFraming /\ written = NothingWritten /\ load = NoLoad

-----------------------------------------------------------------------------
(* Bounds of the model. *)

\* longest payload that follows a length prefix in the reader's inputs
MaxPayload == 4
\* how far past the buffer end skip() is followed
MaxOver == 2
\* largest byte count handed to read_bytes, slice, skip and peek_bytes
MaxArg == 3

-----------------------------------------------------------------------------
(* Sequences, bytes and little-endian integers. *)

R(st, val, pos) == [st |-> st, val |-> val, pos |-> pos]

\* Statement sequencing: an exception raised by r ends the function,
\* otherwise the rest K runs on r's value and position.
Then(r, K(_)) == IF r.st # "ok" THEN r ELSE K(r)

Min(a, b) == IF a < b THEN a ELSE b
Max(a, b) == IF a > b THEN a ELSE b
Abs(a) == IF a < 0 THEN -a ELSE a

\* Python slicing b[lo:hi] on 0 <= lo, with hi clipped to the length.
Slice(b, lo, hi) ==
    LET h == Min(hi, Len(b)) IN
    IF lo >= h THEN <<>> ELSE [i \in 1..(h - lo) |-> b[lo + i]]

\* Python b[:-k] for k >= 1.
DropLast(b, k) == Slice(b, 0, Len(b) - k)

Zeros(n) == [i \in 1..n |-> 0]

AllZero(b) == \A i \in 1..Len(b) : b[i] = 0

\* struct.unpack("<h"), ("<i"): two's complement little-endian.
ToI16(b) == IF b[2] >= 128 THEN (b[2] - 256) * 256 + b[1] ELSE b[2] * 256 + b[1]

ToI32(b) ==
    LET low == b[1] + 256 * b[2] + 65536 * b[3] IN
    IF b[4] >= 128 THEN (b[4] - 256) * 16777216 + low ELSE b[4] * 16777216 + low

ToI8(b) == IF b[1] >= 128 THEN b[1] - 256 ELSE b[1]

\* The little-endian bytes of a signed 32-bit value (used to build inputs).
EncI32(v) ==
    LET hi == IF v < 0 THEN (v \div 16777216) + 256 ELSE v \div 16777216
        lo == IF v < 0 THEN v - (hi - 256) * 16777216 ELSE v - hi * 16777216
    IN <<lo % 256, (lo \div 256) % 256, (lo \div 65536) % 256, hi>>

EncI16(v) ==
    LET u == IF v < 0 THEN v + 65536 ELSE v IN <<u % 256, u \div 256>>

-----------------------------------------------------------------------------
(* BinaryReader (common/binary_reader.py). *)

\* io.BytesIO.read(n): the bytes from pos to the end, at most n of them when
\* n >= 0; nothing when pos is at or past the end.
StreamRead(d, pos, n) ==
    IF n < 0 THEN Slice(d, pos, Len(d)) ELSE Slice(d, pos, pos + n)

\* struct.unpack(fmt, self._stream.read(n)): struct.error on a short read,
\* with the stream left after the bytes that were read.
Unpacked(chunk, pos, n) ==
    IF Len(chunk) < n THEN R("struct.error", <<>>, pos + Len(chunk))
    ELSE R("ok", chunk, pos + n)

Unpack(d, pos, n) == Unpacked(StreamRead(d, pos, n), pos, n)

remaining(d, pos) == Len(d) - pos

\* io.BytesIO.seek(count, SEEK_CUR): never fails, clamps at 0.
skip(d, pos, count) == R("ok", <<>>, Max(0, pos + count))

\* The bytes the stream gave, and the position after them.
Chunk(chunk, pos) == R("ok", chunk, pos + Len(chunk))

read_bytes(d, pos, count) ==
    IF count > remaining(d, pos) THEN R("EndOfDataError", <<>>, pos)
    ELSE Chunk(StreamRead(d, pos, count), pos)

\* slice(size): val is the buffer of the new sub-reader.
slice(d, pos, size) ==
    IF size > remaining(d, pos) THEN R("EndOfDataError", <<>>, pos)
    ELSE Chunk(StreamRead(d, pos, size), pos)

read_int8(d, pos) ==
    Then(Unpack(d, pos, 1), LAMBDA u : R("ok", <<ToI8(u.val)>>, u.pos))

read_uint8(d, pos) ==
    Then(Unpack(d, pos, 1), LAMBDA u : R("ok", <<u.val[1]>>, u.pos))

read_int16(d, pos) ==
    Then(Unpack(d, pos, 2), LAMBDA u : R("ok", <<ToI16(u.val)>>, u.pos))

read_uint16(d, pos) ==
    Then(Unpack(d, pos, 2), LAMBDA u : R("ok", <<u.val[1] + 256 * u.val[2]>>, u.pos))

read_int32(d, pos) ==
    Then(Unpack(d, pos, 4), LAMBDA u : R("ok", <<ToI32(u.val)>>, u.pos))

\* 32-bit unsigned, 64-bit and floating point values: the bit pattern.
read_uint32(d, pos) == Unpack(d, pos, 4)
read_int64(d, pos) == Unpack(d, pos, 8)
read_uint64(d, pos) == Unpack(d, pos, 8)
read_float(d, pos) == Unpack(d, pos, 4)
read_double(d, pos) == Unpack(d, pos, 8)

\* Booleans are <<1>> (True) or <<0>> (False).
read_bool32(d, pos) ==
    Then(read_uint32(d, pos), LAMBDA u : R("ok", <<IF AllZero(u.val) THEN 0 ELSE 1>>, u.pos))

read_bool16(d, pos) ==
    Then(read_int16(d, pos), LAMBDA u : R("ok", <<IF u.val[1] # 0 THEN 1 ELSE 0>>, u.pos))

read_bool8(d, pos) ==
    Then(read_uint8(d, pos), LAMBDA u : R("ok", <<IF u.val[1] # 0 THEN 1 ELSE 0>>, u.pos))

\* bytes.decode("utf-16-le") of an even number of bytes: the code points, or
\* <<-1>> in front when a surrogate is unpaired (UnicodeDecodeError).
RECURSIVE Utf16Units(_)
Utf16Units(b) ==
    IF Len(b) < 2 THEN <<>>
    ELSE <<b[1] + 256 * b[2]>> \o Utf16Units(Slice(b, 2, Len(b)))

IsHigh(u) == u >= 55296 /\ u <= 56319
IsLow(u) == u >= 56320 /\ u <= 57343

RECURSIVE Utf16Points(_)
Utf16Points(u) ==
    IF Len(u) = 0 THEN <<>>
    ELSE IF IsHigh(u[1]) THEN
        IF Len(u) >= 2 /\ IsLow(u[2])
        THEN LET rest == Utf16Points(Slice(u, 2, Len(u))) IN
             IF Len(rest) > 0 /\ rest[1] = -1 THEN <<-1>>
             ELSE <<65536 + (u[1] - 55296) * 1024 + (u[2] - 56320)>> \o rest
        ELSE <<-1>>
    ELSE IF IsLow(u[1]) THEN <<-1>>
    ELSE LET rest == Utf16Points(Slice(u, 1, Len(u))) IN
         IF Len(rest) > 0 /\ rest[1] = -1 THEN <<-1>> ELSE <<u[1]>> \o rest

Decoded(pts, pos) ==
    IF Len(pts) > 0 /\ pts[1] = -1 THEN R("UnicodeDecodeError", <<>>, pos)
    ELSE R("ok", pts, pos)

DecodeUtf16(b, pos) == Decoded(Utf16Points(Utf16Units(b)), pos)

\* bytes.decode("latin-1"): every byte is its own code point.
DecodeLatin1(b) == b

\* read_string with the UTF-16 byte count taken as |length| (not doubled).
ReadStringOfLength_mut(d, pos, length) ==
    IF length = 0 THEN R("ok", <<>>, pos)
    ELSE IF length = 1 THEN R("ok", <<>>, skip(d, pos, 1).pos)
    ELSE IF length = -1 THEN R("ok", <<>>, skip(d, pos, 2).pos)
    ELSE IF length < 0 THEN
         Then(read_bytes(d, pos, Abs(length)), LAMBDA b :
         DecodeUtf16(DropLast(b.val, 2), b.pos))
    ELSE Then(read_bytes(d, pos, length), LAMBDA b :
         R("ok", DecodeLatin1(DropLast(b.val, 1)), b.pos))

read_string_mut(d, pos) ==
    Then(read_int32(d, pos), LAMBDA len : ReadStringOfLength_mut(d, len.pos, len.val[1]))

ReadStringOfLength(d, pos, length) ==
    IF length = 0 THEN R("ok", <<>>, pos)
    ELSE IF length = 1 THEN R("ok", <<>>, skip(d, pos, 1).pos)
    ELSE IF length = -1 THEN R("ok", <<>>, skip(d, pos, 2).pos)
    ELSE IF length < 0 THEN
         Then(read_bytes(d, pos, Abs(length) * 2), LAMBDA b :
         DecodeUtf16(DropLast(b.val, 2), b.pos))
    ELSE Then(read_bytes(d, pos, length), LAMBDA b :
         R("ok", DecodeLatin1(DropLast(b.val, 1)), b.pos))

read_string(d, pos) ==
    Then(read_int32(d, pos), LAMBDA len : ReadStringOfLength(d, len.pos, len.val[1]))

\* uuid.UUID(bytes_le=b).bytes: the first three fields byte-swapped.  The
\* canonical text str(UUID) is the hexadecimal writing of these 16 bytes.
UuidFromBytesLe(b) ==
    <<b[4], b[3], b[2], b[1], b[6], b[5], b[8], b[7]>> \o Slice(b, 8, 16)

GuidLen == 16

read_guid(d, pos) ==
    Then(read_bytes(d, pos, GuidLen), LAMBDA g : R("ok", UuidFromBytesLe(g.val), g.pos))

read_guid_bytes(d, pos) == read_bytes(d, pos, GuidLen)

\* peek_bytes(count): position restored.
peek_bytes(d, pos, count) ==
    Then(read_bytes(d, pos, Min(count, remaining(d, pos))), LAMBDA b : R("ok", b.val, pos))

-----------------------------------------------------------------------------
(* The reader as a state machine: one BinaryReader over an input buffer,   *)
(* one action per public method.                                           *)

\* Payload families: distinct letters; a UTF-16 surrogate pair D800 DC00
\* followed by letters; a lone low surrogate; zeros (null terminators).
PayloadLetters(n) == [i \in 1..n |-> 64 + i]
PayloadPair(n) == [i \in 1..n |-> IF i = 2 THEN 216 ELSE IF i = 4 THEN 220
                                   ELSE IF i % 2 = 1 THEN 0 ELSE 65]
PayloadLow(n) == [i \in 1..n |-> IF i = 2 THEN 220 ELSE IF i % 2 = 1 THEN 65 ELSE 0]

Payloads ==
    UNION { {PayloadLetters(n), PayloadPair(n), PayloadLow(n), Zeros(n)} :
            n \in 0..MaxPayload }

PrefixValues == {0, 1, -1, 2, 3, -2, -3, MaxPayload, MaxPayload + 1, 33, -32}

ReaderInputs ==
    { EncI32(L) \o p : L \in PrefixValues, p \in Payloads }
      \cup { Slice(EncI32(2), 0, k) : k \in 0..3 }
      \cup { [i \in 1..(GuidLen + k) |-> i] : k \in 0..1 }

Done(op, arg, r) ==
    /\ r.pos <= Len(data) + MaxOver
    /\ position' = r.pos
    /\ last' = [op |-> op, arg |-> arg, pos0 |-> position, st |-> r.st, val |-> r.val]
    /\ UNCHANGED <<data, nonReaderVars>>

ReaderInit ==
    /\ data \in ReaderInputs
    /\ position = 0
    /\ last = [op |-> "new", arg |-> 0, pos0 |-> 0, st |-> "ok", val |-> <<>>]
    /\ source = NoSource
    /\ name_table = NoTable
    /\ PropsIdle

\* position setter: io.BytesIO.seek(value) raises ValueError below 0.
SetPosition ==
    \E value \in -1..(Len(data) + MaxOver) :
        Done("position", value,
             IF value < 0 THEN R("ValueError", <<>>, position)
             ELSE R("ok", <<>>, value))

Skip == \E n \in (0 - MaxArg)..MaxArg : Done("skip", n, skip(data, position, n))
SliceOp == \E n \in -1..MaxArg : Done("slice", n, slice(data, position, n))
ReadBytes == \E n \in -1..MaxArg : Done("read_bytes", n, read_bytes(data, position, n))
PeekBytes == \E n \in -1..MaxArg : Done("peek_bytes", n, peek_bytes(data, position, n))
ReadInt8 == Done("read_int8", 1, read_int8(data, position))
ReadUInt8 == Done("read_uint8", 1, read_uint8(data, position))
ReadInt16 == Done("read_int16", 2, read_int16(data, position))
ReadUInt16 == Done("read_uint16", 2, read_uint16(data, position))
ReadInt32 == Done("read_int32", 4, read_int32(data, position))
ReadUInt32 == Done("read_uint32", 4, read_uint32(data, position))
ReadInt64 == Done("read_int64", 8, read_int64(data, position))
ReadUInt64 == Done("read_uint64", 8, read_uint64(data, position))
ReadFloat == Done("read_float", 4, read_float(data, position))
ReadDouble == Done("read_double", 8, read_double(data, position))
ReadBool32 == Done("read_bool32", 4, read_bool32(data, position))
ReadBool16 == Done("read_bool16", 2, read_bool16(data, position))
ReadBool8 == Done("read_bool8", 1, read_bool8(data, position))
ReadString == Done("read_string", 0, read_string(data, position))
ReadGuid == Done("read_guid", GuidLen, read_guid(data, position))
ReadGuidBytes == Done("read_guid_bytes", GuidLen, read_guid_bytes(data, position))

ReaderNext ==
    \/ SetPosition \/ Skip \/ SliceOp \/ ReadBytes \/ PeekBytes
    \/ ReadInt8 \/ ReadUInt8 \/ ReadInt16 \/ ReadUInt16 \/ ReadInt32 \/ ReadUInt32
    \/ ReadInt64 \/ ReadUInt64 \/ ReadFloat \/ ReadDouble
    \/ ReadBool32 \/ ReadBool16 \/ ReadBool8
    \/ ReadString \/ ReadGuid \/ ReadGuidBytes

SpecReader == ReaderInit /\ [][ReaderNext]_vars

-----------------------------------------------------------------------------
(* Claims about the reader. *)

\* The bytes an operation needs from position pos0 on: the `arg` of a
\* fixed-width read, of read_guid, read_bytes, slice and skip; for
\* read_string the 4-byte prefix and then the payload the prefix announces.
StringNeed(d, pos0) ==
    IF remaining(d, pos0) < 4 THEN 4
    ELSE LET L == ToI32(Slice(d, pos0, pos0 + 4)) IN
         4 + (IF L = 1 THEN 1 ELSE IF L = -1 THEN 2
              ELSE IF L > 1 THEN L ELSE IF L < -1 THEN 2 * Abs(L) ELSE 0)

BoundedOps ==
    {"read_int8", "read_uint8", "read_int16", "read_uint16", "read_int32",
     "read_uint32", "read_int64", "read_uint64", "read_float", "read_double",
     "read_bool32", "read_bool16", "read_bool8", "read_guid", "read_bytes",
     "read_string", "slice", "skip"}

PassesEnd ==
    /\ last.op \in BoundedOps
    /\ last.pos0 <= Len(data)
    /\ LET need == IF last.op = "read_string" THEN StringNeed(data, last.pos0)
                   ELSE last.arg
       IN need > 0 /\ last.pos0 + need > Len(data)

\* C6 (as claimed): every BinaryReader operation that would pass the buffer
\* end fails with the end-of-data error.
C6_PassingEndRaisesEndOfData == PassesEnd => last.st = "EndOfDataError"

\* C7: read_string follows the length-prefix law whenever the prefix and the
\* payload it announces are present: L = 0 returns "" after 4 bytes; L = 1
\* returns "" after 5; L = -1 returns "" after 6; L > 1 consumes 4 + L bytes
\* and returns the first L - 1 payload bytes as Latin-1; L < -1 consumes
\* 4 + 2|L| bytes and returns the payload without its last two bytes decoded
\* as UTF-16LE (the decoder's outcome, an error for an unpaired surrogate).
C7_StringLengthPrefixLaw ==
    (last.op = "read_string" /\ remaining(data, last.pos0) >= 4) =>
        LET p == last.pos0
            L == ToI32(Slice(data, p, p + 4))
            avail == Len(data) - p - 4
            utf == DecodeUtf16(Slice(data, p + 4, p + 4 + 2 * Abs(L) - 2), 0)
        IN /\ L = 0 => last.st = "ok" /\ last.val = <<>> /\ position = p + 4
           /\ (L = 1 /\ avail >= 1) =>
                  last.st = "ok" /\ last.val = <<>> /\ position = p + 5
           /\ (L = -1 /\ avail >= 2) =>
                  last.st = "ok" /\ last.val = <<>> /\ position = p + 6
           /\ (L > 1 /\ avail >= L) =>
                  /\ last.st = "ok"
                  /\ last.val = Slice(data, p + 4, p + 4 + L - 1)
                  /\ position = p + 4 + L
           /\ (L < -1 /\ avail >= 2 * Abs(L)) =>
                  /\ last.st = utf.st
                  /\ last.val = utf.val
                  /\ position = p + 4 + 2 * Abs(L)

\* C7 witness: a UTF-16 string of at least one character has been read.
C7_Witness ==
    /\ last.op = "read_string"
    /\ remaining(data, last.pos0) >= 4
    /\ ToI32(Slice(data, last.pos0, last.pos0 + 4)) < -1
    /\ last.st = "ok"
    /\ Len(last.val) >= 1

-----------------------------------------------------------------------------
(* Format detection (common/version_detection.py). *)

\* b"SQLite format 3\x00"
SQLITE_MAGIC == <<83, 81, 76, 105, 116, 101, 32, 102, 111, 114, 109, 97, 116, 32, 51, 0>>

DotArk == <<46, 97, 114, 107>>                                   \* ".ark"
DotARK == <<46, 65, 82, 75>>                                     \* ".ARK"
DotArkMixed == <<46, 65, 114, 107>>                              \* ".Ark"
DotArkprofile == <<46, 97, 114, 107, 112, 114, 111, 102, 105, 108, 101>>
DotArktribe == <<46, 97, 114, 107, 116, 114, 105, 98, 101>>

\* str.lower() on ASCII text.
Lower(txt) == [i \in 1..Len(txt) |-> IF txt[i] >= 65 /\ txt[i] <= 90 THEN txt[i] + 32
                                      ELSE txt[i]]

\* int.from_bytes(data[a:b], "little", signed=True) for b - a = 2 and 4.
FromBytes16(d) == ToI16(Slice(d, 0, 2))
FromBytes32(d) == ToI32(Slice(d, 0, 4))

\* detect_format with the world-save version range of get_save_version (5..9).
detect_format_mut(src, d) ==
    IF Len(d) < 24 THEN "UNKNOWN"
    ELSE IF Slice(d, 0, 16) = SQLITE_MAGIC THEN "ASA"
    ELSE IF src.kind = "path" /\ Lower(src.suffix) = DotArk THEN
         IF 5 <= FromBytes16(d) /\ FromBytes16(d) <= 9 THEN "ASE" ELSE "UNKNOWN"
    ELSE LET version == FromBytes32(d) IN
         IF version >= 7 THEN "ASA"
         ELSE IF 1 <= version /\ version <= 6 THEN
              IF \E i \in 1..16 : Slice(d, 8, 24)[i] # 0 THEN "ASA" ELSE "ASE"
         ELSE "UNKNOWN"

\* detect_format(source): the path is taken to exist; an empty file has
\* fewer than 24 bytes.
detect_format(src, d) ==
    IF Len(d) < 24 THEN "UNKNOWN"
    ELSE IF Slice(d, 0, 16) = SQLITE_MAGIC THEN "ASA"
    ELSE IF src.kind = "path" /\ Lower(src.suffix) = DotArk THEN
         IF 5 <= FromBytes16(d) /\ FromBytes16(d) <= 12 THEN "ASE" ELSE "UNKNOWN"
    ELSE LET version == FromBytes32(d) IN
         IF version >= 7 THEN "ASA"
         ELSE IF 1 <= version /\ version <= 6 THEN
              IF \E i \in 1..16 : Slice(d, 8, 24)[i] # 0 THEN "ASA" ELSE "ASE"
         ELSE "UNKNOWN"

\* Inputs: a version word, four more bytes, the 16 bytes where a GUID may
\* stand (all zero, or one non-zero byte at its start, middle or end), and up
\* to MaxTail bytes after offset 24 (non-zero); the SQLite magic and a
\* near miss of it; inputs shorter than 24 bytes.
MaxTail == 1

DetectVersions ==
    {-1, 0, 1, 4, 5, 6, 7, 8, 12, 13, 65541, 65549, -2147483643, 327680, 2147483647}

GuidArea == {Zeros(16)} \cup { [i \in 1..16 |-> IF i = k THEN 1 ELSE 0] : k \in {1, 8, 16} }

DetectInputs ==
    { EncI32(v) \o w \o g \o [i \in 1..t |-> 9] :
        v \in DetectVersions, w \in {Zeros(4), <<2, 0, 0, 0>>}, g \in GuidArea,
        t \in 0..MaxTail }
      \cup { SQLITE_MAGIC \o Zeros(8), SQLITE_MAGIC \o <<0, 16, 1, 1, 0, 64, 32, 32>>,
             <<83>> \o Zeros(23), Slice(SQLITE_MAGIC, 0, 15) \o <<1>> \o Zeros(8) }
      \cup { EncI32(v) \o Zeros(19) : v \in {1, 7} }
      \cup { SQLITE_MAGIC, <<>> }

DetectSources ==
    {NoSource} \cup
    { [kind |-> "path", suffix |-> x] :
        x \in {<<>>, DotArk, DotARK, DotArkMixed, DotArkprofile, DotArktribe} }

DetectInit ==
    /\ data \in DetectInputs
    /\ source \in DetectSources
    /\ position = 0
    /\ last = [op |-> "new", arg |-> 0, pos0 |-> 0, st |-> "ok", val |-> <<>>]
    /\ name_table = NoTable
    /\ PropsIdle

DetectFormat ==
    /\ last.op = "new"
    /\ last' = [op |-> "detect_format", arg |-> 0, pos0 |-> 0, st |-> "ok",
                val |-> <<detect_format(source, data)>>]
    /\ UNCHANGED <<data, position, nonReaderVars>>

DetectNext == DetectFormat

SpecDetect == DetectInit /\ [][DetectNext]_vars

\* The extension .ark, compared without regard to case.
HasArkExtension == source.kind = "path" /\ source.suffix \in {DotArk, DotARK, DotArkMixed}

\* C8: on any input of at least 24 bytes detect_format applies, in order:
\* (1) SQLite magic in the first 16 bytes -> ASA; (2) a path with extension
\* .ark -> ASE if the int16 at offset 0 is in [5,12], else UNKNOWN; (3)
\* otherwise, with v the int32 at offset 0: v >= 7 -> ASA; v in [1,6] -> ASA
\* if any of bytes 8..23 is non-zero, else ASE; any other v -> UNKNOWN.
C8_DetectFormatRules ==
    (last.op = "detect_format" /\ Len(data) >= 24) =>
        LET v16 == ToI16(<<data[1], data[2]>>)
            v == ToI32(<<data[1], data[2], data[3], data[4]>>)
            expected ==
                IF \A i \in 1..16 : data[i] = SQLITE_MAGIC[i] THEN "ASA"
                ELSE IF HasArkExtension THEN
                     (IF v16 \in 5..12 THEN "ASE" ELSE "UNKNOWN")
                ELSE IF v >= 7 THEN "ASA"
                ELSE IF v \in 1..6 THEN
                     (IF \E i \in 9..24 : data[i] # 0 THEN "ASA" ELSE "ASE")
                ELSE "UNKNOWN"
        IN last.val = <<expected>>

\* C8 witness: a .ark path whose int16 version is in range although its
\* int32 reading is not, classified as a Legacy world save.
C8_Witness ==
    /\ last.op = "detect_format"
    /\ Len(data) >= 24
    /\ HasArkExtension
    /\ ToI32(<<data[1], data[2], data[3], data[4]>>) < 0
    /\ last.val = <<"ASE">>

-----------------------------------------------------------------------------
(* Names (common/types.py, properties/base.py, files/world_save.py). *)

\* n int32 values one after another: val is the list of them.
RECURSIVE ReadInt32s(_, _, _, _)
ReadInt32s(d, pos, n, acc) ==
    IF n = 0 THEN R("ok", acc, pos)
    ELSE Then(read_int32(d, pos), LAMBDA x : ReadInt32s(d, x.pos, n - 1, acc \o x.val))

\* str(n) for an integer n, as text.
RECURSIVE NatText(_)
NatText(n) == IF n < 10 THEN <<48 + n>> ELSE NatText(n \div 10) \o <<48 + (n % 10)>>

IntText(n) == IF n < 0 THEN <<45>> \o NatText(0 - n) ELSE NatText(n)

NAME_NONE == <<78, 111, 110, 101>>

\* ArkName.__str__ on ArkName(name, instance).
ArkName_str(name, instance) ==
    IF instance = 0 THEN name
    ELSE name \o <<95>> \o IntText(instance - 1)

\* len(name_table) for a list table.
TableLen(nt) == Len(nt.names)

\* key in name_table, for a dict table.
TableHas(nt, key) == key \in DOMAIN nt.names

\* name_table.get(key, default) for a dict table.
TableGet(nt, key, default) == IF key \in DOMAIN nt.names THEN nt.names[key] ELSE default

\* Truth value of name_table: None and empty containers are false.
TableTruthy(nt) == nt.kind # "none" /\ DOMAIN nt.names # {}

\* _read_name_from_list_table with the bound test off by one.
_read_name_from_list_table_mut(d, pos, nt) ==
    Then(read_int32(d, pos), LAMBDA index :
    IF index.val[1] - 1 < 0 \/ index.val[1] - 1 > TableLen(nt)
    THEN R("ok", <<95, 95, 73, 78, 86, 65, 76, 73, 68, 95, 78, 65, 77, 69, 95, 73, 78, 68, 69, 88, 95>> \o IntText(index.val[1]) \o <<95, 95>>, index.pos)
    ELSE IF index.val[1] \notin DOMAIN nt.names THEN R("IndexError", <<>>, index.pos)
    ELSE
    Then(read_int32(d, index.pos), LAMBDA instance :
    IF instance.val[1] > 0
    THEN R("ok", nt.names[index.val[1]] \o <<95>> \o IntText(instance.val[1] - 1), instance.pos)
    ELSE R("ok", nt.names[index.val[1]], instance.pos)))

\* internal_index = index - 1 is the 0-based position, nt.names[index] the
\* entry name_table[internal_index].
_read_name_from_list_table(d, pos, nt) ==
    Then(read_int32(d, pos), LAMBDA index :
    IF index.val[1] - 1 < 0 \/ index.val[1] - 1 >= TableLen(nt)
    THEN R("ok", <<95, 95, 73, 78, 86, 65, 76, 73, 68, 95, 78, 65, 77, 69, 95, 73, 78, 68, 69, 88, 95>> \o IntText(index.val[1]) \o <<95, 95>>, index.pos)
    ELSE
    Then(read_int32(d, index.pos), LAMBDA instance :
    IF instance.val[1] > 0
    THEN R("ok", nt.names[index.val[1]] \o <<95>> \o IntText(instance.val[1] - 1), instance.pos)
    ELSE R("ok", nt.names[index.val[1]], instance.pos)))

\* _read_name_from_dict_table with the suffix taken as the instance itself.
_read_name_from_dict_table_mut(d, pos, nt) ==
    Then(read_int32(d, pos), LAMBDA name_id :
    IF ~TableHas(nt, name_id.val[1])
    THEN R("ok", <<95, 95, 85, 78, 75, 78, 79, 87, 78, 95, 78, 65, 77, 69, 95>> \o IntText(name_id.val[1]) \o <<95, 95>>, name_id.pos)
    ELSE
    Then(read_int32(d, name_id.pos), LAMBDA instance :
    IF instance.val[1] > 0
    THEN R("ok", nt.names[name_id.val[1]] \o <<95>> \o IntText(instance.val[1]), instance.pos)
    ELSE R("ok", nt.names[name_id.val[1]], instance.pos)))

_read_name_from_dict_table(d, pos, nt) ==
    Then(read_int32(d, pos), LAMBDA name_id :
    IF ~TableHas(nt, name_id.val[1])
    THEN R("ok", <<95, 95, 85, 78, 75, 78, 79, 87, 78, 95, 78, 65, 77, 69, 95>> \o IntText(name_id.val[1]) \o <<95, 95>>, name_id.pos)
    ELSE
    Then(read_int32(d, name_id.pos), LAMBDA instance :
    IF instance.val[1] > 0
    THEN R("ok", nt.names[name_id.val[1]] \o <<95>> \o IntText(instance.val[1] - 1), instance.pos)
    ELSE R("ok", nt.names[name_id.val[1]], instance.pos)))

read_name(d, pos, nt) ==
    IF nt.kind = "none" THEN read_string(d, pos)
    ELSE IF nt.kind = "dict" THEN _read_name_from_dict_table(d, pos, nt)
    ELSE _read_name_from_list_table(d, pos, nt)

\* f"{name}_{instance - 1}" if instance > 0 else name
Suffixed(name, instance) ==
    IF instance > 0 THEN name \o <<95>> \o IntText(instance - 1) ELSE name

\* WorldSave._read_ase_name_from_table
_read_ase_name_from_table(d, pos, nt) ==
    Then(read_int32(d, pos), LAMBDA index :
    Then(read_int32(d, index.pos), LAMBDA instance :
    R("ok",
      Suffixed(IF nt.kind = "list" /\ 0 <= index.val[1] - 1 /\ index.val[1] - 1 < TableLen(nt)
               THEN nt.names[index.val[1]]
               ELSE <<95, 95, 73, 78, 86, 65, 76, 73, 68, 95, 78, 65, 77, 69, 95, 73, 78, 68, 69, 88, 95>> \o IntText(index.val[1]) \o <<95, 95>>,
               instance.val[1]),
      instance.pos)))

\* WorldSave._read_asa_name_from_table (the table is a dict: asserted)
_read_asa_name_from_table(d, pos, nt) ==
    Then(read_int32(d, pos), LAMBDA index :
    Then(read_int32(d, index.pos), LAMBDA instance :
    R("ok",
      Suffixed(TableGet(nt, index.val[1],
                        <<95, 95, 85, 78, 75, 78, 79, 87, 78, 95, 78, 65, 77, 69, 95>> \o IntText(index.val[1]) \o <<95, 95>>),
               instance.val[1]),
      instance.pos)))

\* _read_worldsave_simple_prefix: val = <<data_size, flag, array_index>>
_read_worldsave_simple_prefix_mut(d, pos) ==
    Then(read_int32(d, pos), LAMBDA padding :
    Then(read_int32(d, padding.pos), LAMBDA data_size :
    Then(read_uint8(d, data_size.pos), LAMBDA flag :
    IF flag.val[1] # 0
    THEN Then(read_int32(d, flag.pos), LAMBDA array_index :
              R("ok", <<data_size.val[1], flag.val[1], array_index.val[1]>>, array_index.pos))
    ELSE R("ok", <<data_size.val[1], flag.val[1], 0>>, flag.pos))))

_read_worldsave_simple_prefix(d, pos) ==
    Then(read_int32(d, pos), LAMBDA padding :
    Then(read_int32(d, padding.pos), LAMBDA data_size :
    Then(read_uint8(d, data_size.pos), LAMBDA flag :
    IF flag.val[1] % 2 = 1
    THEN Then(read_int32(d, flag.pos), LAMBDA array_index :
              R("ok", <<data_size.val[1], flag.val[1], array_index.val[1]>>, array_index.pos))
    ELSE R("ok", <<data_size.val[1], flag.val[1], 0>>, flag.pos))))

\* A decoded property: cls(name=header.name, index=index, _value=value).
Prop(type_name, name, index, value) ==
    [type_name |-> type_name, name |-> name, index |-> index, value |-> value]

\* NameProperty.read
NameProperty_read(d, pos, header, is_asa, nt, worldsave_format) ==
    IF worldsave_format THEN
        Then(_read_worldsave_simple_prefix(d, pos), LAMBDA pre :
        IF TableTruthy(nt) /\ nt.kind = "dict" THEN
            Then(read_int32(d, pre.pos), LAMBDA name_id :
            Then(read_int32(d, name_id.pos), LAMBDA name_instance :
            R("ok",
              <<Prop("NameProperty", header.name, pre.val[3],
                     Suffixed(TableGet(nt, name_id.val[1],
                                       <<95, 95, 85, 78, 75, 78, 79, 87, 78, 95>> \o IntText(name_id.val[1]) \o <<95, 95>>),
                              name_instance.val[1]))>>,
              name_instance.pos)))
        ELSE
            Then(read_string(d, pre.pos), LAMBDA value :
            R("ok", <<Prop("NameProperty", header.name, pre.val[3], value.val)>>, value.pos)))
    ELSE IF is_asa THEN
        Then(read_uint8(d, pos), LAMBDA extra_byte :
        Then(IF extra_byte.val[1] % 2 = 1 THEN read_int32(d, extra_byte.pos)
             ELSE R("ok", <<header.index>>, extra_byte.pos), LAMBDA index :
        Then(read_string(d, index.pos), LAMBDA value :
        R("ok", <<Prop("NameProperty", header.name, index.val[1], value.val)>>, value.pos))))
    ELSE
        Then(read_name(d, pos, nt), LAMBDA value :
        R("ok", <<Prop("NameProperty", header.name, header.index, value.val)>>, value.pos))

\* PropertyHeader(name, type_name, data_size, index)
PropertyHeader(name, type_name, data_size, index) ==
    [name |-> name, type_name |-> type_name, data_size |-> data_size, index |-> index]

\* _read_worldsave_property_header: val = <<header>>, or <<>> for None (the
\* terminator).  A list has no get method.
_read_worldsave_property_header(d, pos, nt) ==
    IF nt.kind = "none" THEN R("ValueError", <<>>, pos) ELSE
    Then(read_int32(d, pos), LAMBDA name_id :
    Then(read_int32(d, name_id.pos), LAMBDA name_instance :
    IF nt.kind # "dict" THEN R("AttributeError", <<>>, name_instance.pos) ELSE
    IF TableGet(nt, name_id.val[1], <<95, 95, 85, 78, 75, 78, 79, 87, 78, 95, 78, 65, 77, 69, 95>> \o IntText(name_id.val[1]) \o <<95, 95>>)
         = NAME_NONE
    THEN R("ok", <<>>, name_instance.pos)
    ELSE
    Then(read_int32(d, name_instance.pos), LAMBDA type_id :
    Then(read_int32(d, type_id.pos), LAMBDA type_instance :
    R("ok",
      <<PropertyHeader(
          TableGet(nt, name_id.val[1], <<95, 95, 85, 78, 75, 78, 79, 87, 78, 95, 78, 65, 77, 69, 95>> \o IntText(name_id.val[1]) \o <<95, 95>>),
          TableGet(nt, type_id.val[1], <<95, 95, 85, 78, 75, 78, 79, 87, 78, 95, 84, 89, 80, 69, 95>> \o IntText(type_id.val[1]) \o <<95, 95>>),
          0,
          IF name_instance.val[1] > 0 THEN name_instance.val[1] - 1 ELSE 0)>>,
      type_instance.pos)))))

\* read_property_header: val = <<header>>, or <<>> for None.
read_property_header(d, pos, is_asa, nt, worldsave_format) ==
    IF worldsave_format THEN _read_worldsave_property_header(d, pos, nt) ELSE
    Then(read_name(d, pos, nt), LAMBDA name :
    IF name.val = NAME_NONE \/ name.val = <<>> THEN R("ok", <<>>, name.pos) ELSE
    Then(read_name(d, name.pos, nt), LAMBDA type_name :
    Then(read_int32(d, type_name.pos), LAMBDA data_size :
    Then(read_int32(d, data_size.pos), LAMBDA index :
    R("ok", <<PropertyHeader(name.val, type_name.val, data_size.val[1], index.val[1])>>,
      index.pos)))))


\* --- the name readers as a state machine ---

\* Longest list table, and the number of name references in a stream.
MaxNames == 2
MaxRefs == 2

NamePool(i) == IF i = 1 THEN <<65, 98>> ELSE IF i = 2 THEN <<78, 111, 110, 101>> ELSE IF i = 3 THEN <<88, 95, 51>>
               ELSE <<78>> \o IntText(i)

ListTable(n) == [kind |-> "list", names |-> [i \in 1..n |-> NamePool(i)]]

DictTable(keys) == [kind |-> "dict", names |-> [k \in keys |-> NamePool(IF k = 7 THEN 1 ELSE 2)]]

NameTables ==
    {NoTable} \cup { ListTable(n) : n \in 0..MaxNames }
              \cup { DictTable(ks) : ks \in {{}, {7}, {0 - 1, 7}} }

NameIndices == {0 - 1, 0, 1, 2, 3, 7}
NameInstances == {0 - 1, 0, 1, 11}

Ref(index, instance) == EncI32(index) \o EncI32(instance)

TailRefs == {Ref(1, 0), Ref(5, 2)}

RECURSIVE RefTails(_)
RefTails(n) == IF n = 0 THEN {<<>>} ELSE { r \o t : r \in TailRefs, t \in RefTails(n - 1) }

\* Streams of one to MaxRefs references, whole or cut short; a reference
\* behind a world-save value prefix; a string behind a Modern value prefix.
NameInputs ==
    { DropLast(Ref(i, n) \o t, cut) :
        i \in NameIndices, n \in NameInstances,
        t \in UNION { RefTails(k) : k \in 0..(MaxRefs - 1) }, cut \in {0, 4} }
      \cup { Zeros(4) \o EncI32(8) \o pre \o Ref(i, n) :
               pre \in {<<0>>, <<1>> \o EncI32(3)}, i \in NameIndices, n \in NameInstances }
      \cup { pre \o EncI32(3) \o <<65, 98>> \o <<0>> : pre \in {<<>>, <<0>>, <<1>> \o EncI32(3)} }

NameInit ==
    /\ data \in NameInputs
    /\ name_table \in NameTables
    /\ position = 0
    /\ last = [op |-> "new", arg |-> 0, pos0 |-> 0, st |-> "ok", val |-> <<>>]
    /\ source = NoSource
    /\ PropsIdle

ReadNameFromListTable ==
    /\ name_table.kind = "list"
    /\ Done("_read_name_from_list_table", 0, _read_name_from_list_table(data, position, name_table))

ReadNameFromDictTable ==
    /\ name_table.kind = "dict"
    /\ Done("_read_name_from_dict_table", 0, _read_name_from_dict_table(data, position, name_table))

ReadName == Done("read_name", 0, read_name(data, position, name_table))

ReadAseNameFromTable ==
    /\ name_table.kind = "list"
    /\ Done("_read_ase_name_from_table", 0, _read_ase_name_from_table(data, position, name_table))

ReadAsaNameFromTable ==
    /\ name_table.kind = "dict"
    /\ Done("_read_asa_name_from_table", 0, _read_asa_name_from_table(data, position, name_table))

ReadWorldsaveHeader ==
    Done("_read_worldsave_property_header", 0,
         _read_worldsave_property_header(data, position, name_table))

ReadNameProperty ==
    \E is_asa \in BOOLEAN, worldsave_format \in BOOLEAN :
        Done("NameProperty.read", <<is_asa, worldsave_format>>,
             NameProperty_read(data, position, PropertyHeader(<<80>>, <<78, 97, 109, 101, 80, 114, 111, 112, 101, 114, 116, 121>>, 0, 0),
                               is_asa, name_table, worldsave_format))

ArkNameStr ==
    \E i \in 1..(MaxNames + 1), instance \in NameInstances :
        /\ last' = [op |-> "ArkName.__str__", arg |-> <<NamePool(i), instance>>,
                    pos0 |-> position, st |-> "ok",
                    val |-> ArkName_str(NamePool(i), instance)]
        /\ UNCHANGED <<data, position, nonReaderVars>>

NameNext ==
    \/ ReadNameFromListTable \/ ReadNameFromDictTable \/ ReadName
    \/ ReadAseNameFromTable \/ ReadAsaNameFromTable
    \/ ReadWorldsaveHeader \/ ReadNameProperty \/ ArkNameStr

SpecName == NameInit /\ [][NameNext]_vars



\* --- claims on the name readers ---

\* The int32 stored at offset p of the stream.
Int32At(p) == ToI32(<<data[p + 1], data[p + 2], data[p + 3], data[p + 4]>>)

IsPrefixOf(pre, txt) == Len(pre) <= Len(txt) /\ \A i \in 1..Len(pre) : txt[i] = pre[i]

\* The table lookups made by the last operation: the kind of table, the
\* offset of the (index, instance) reference, how far the operation has to
\* read, the text it returned for that reference (<<>> when it raised), and
\* whether the reader appends the instance suffix to the text.
LookupCases ==
    IF last.op \in {"_read_name_from_list_table", "_read_ase_name_from_table"}
    THEN {[table |-> "list", at |-> last.pos0, need |-> last.pos0 + 8, suffix |-> TRUE,
           text |-> last.val]}
    ELSE IF last.op \in {"_read_name_from_dict_table", "_read_asa_name_from_table"}
    THEN {[table |-> "dict", at |-> last.pos0, need |-> last.pos0 + 8, suffix |-> TRUE,
           text |-> last.val]}
    ELSE IF last.op = "read_name" /\ name_table.kind # "none"
    THEN {[table |-> name_table.kind, at |-> last.pos0, need |-> last.pos0 + 8,
           suffix |-> TRUE, text |-> last.val]}
    ELSE IF last.op = "NameProperty.read" /\ last.arg = <<FALSE, FALSE>>
            /\ name_table.kind # "none"
    THEN {[table |-> name_table.kind, at |-> last.pos0, need |-> last.pos0 + 8,
           suffix |-> TRUE,
           text |-> IF last.st = "ok" THEN last.val[1].value ELSE <<>>]}
    ELSE IF last.op = "NameProperty.read" /\ last.arg[2] /\ name_table.kind = "dict"
            /\ DOMAIN name_table.names # {} /\ last.pos0 + 9 <= Len(data)
    THEN LET at == last.pos0 + 9 + (IF data[last.pos0 + 9] % 2 = 1 THEN 4 ELSE 0) IN
         {[table |-> "dict", at |-> at, need |-> at + 8, suffix |-> TRUE,
           text |-> IF last.st = "ok" THEN last.val[1].value ELSE <<>>]}
    ELSE IF last.op = "_read_worldsave_property_header" /\ name_table.kind = "dict"
    THEN IF last.st = "ok" /\ last.val = <<>>
         THEN {}   \* the terminator: the name was found and is "None"
         ELSE {[table |-> "dict", at |-> last.pos0, need |-> last.pos0 + 16,
                suffix |-> FALSE,
                text |-> IF last.st = "ok" THEN last.val[1].name ELSE <<>>],
               [table |-> "dict", at |-> last.pos0 + 8, need |-> last.pos0 + 16,
                suffix |-> FALSE,
                text |-> IF last.st = "ok" THEN last.val[1].type_name ELSE <<>>]}
    ELSE {}

\* The reference lies inside the stream.
Present(c) == c.need <= Len(data)

LookupMisses(c) ==
    IF c.table = "list" THEN Int32At(c.at) <= 0 \/ Int32At(c.at) > Len(name_table.names)
    ELSE Int32At(c.at) \notin DOMAIN name_table.names

PlaceholderPrefixes ==
    {<<95, 95, 73, 78, 86, 65, 76, 73, 68, 95, 78, 65, 77, 69, 95, 73, 78, 68, 69, 88, 95>>, <<95, 95, 85, 78, 75, 78, 79, 87, 78, 95, 78, 65, 77, 69, 95>>, <<95, 95, 85, 78, 75, 78, 79, 87, 78, 95, 84, 89, 80, 69, 95>>, <<95, 95, 85, 78, 75, 78, 79, 87, 78, 95>>}

IsPlaceholder(txt, index) ==
    \E pre \in PlaceholderPrefixes : IsPrefixOf(pre \o IntText(index) \o <<95, 95>>, txt)

\* C9: a name reference whose index is out of the bounds of the list table
\* (index <= 0 or index > length), or whose key is not in the dict table, is
\* read as a placeholder name and no error is raised, by every reader that
\* looks names up in a table.
C9_MissYieldsPlaceholder ==
    \A c \in LookupCases :
        (Present(c) /\ LookupMisses(c)) =>
            (last.st = "ok" /\ IsPlaceholder(c.text, Int32At(c.at)))

\* C9 witness: the world-save object-header reader met an index past the
\* end of the list table and returned the placeholder for it.
C9_Witness ==
    /\ last.op = "_read_ase_name_from_table"
    /\ last.pos0 + 8 <= Len(data)
    /\ Int32At(last.pos0) > Len(name_table.names)
    /\ Len(name_table.names) > 0
    /\ last.st = "ok"
    /\ IsPlaceholder(last.val, Int32At(last.pos0))

\* C10: a (base, instance) pair reads as base when instance = 0 and as
\* base_(instance-1) when instance > 0: for ArkName.__str__, for names read
\* through the list table, for names read through the dict table, and for
\* NameProperty values in world-save framing.
C10_InstanceSuffix ==
    /\ last.op = "ArkName.__str__" =>
          /\ last.arg[2] = 0 => last.val = last.arg[1]
          /\ last.arg[2] > 0 => last.val = last.arg[1] \o <<95>> \o IntText(last.arg[2] - 1)
    /\ \A c \in LookupCases :
          (c.suffix /\ Present(c) /\ ~LookupMisses(c)) =>
              LET base == name_table.names[Int32At(c.at)]
                  instance == Int32At(c.at + 4)
              IN /\ last.st = "ok"
                 /\ instance = 0 => c.text = base
                 /\ instance > 0 => c.text = base \o <<95>> \o IntText(instance - 1)

\* C10 witness: instance 11 of the name "Ab" read through the dict table by
\* NameProperty in world-save framing gives "Ab_10".
C10_Witness ==
    /\ last.op = "NameProperty.read"
    /\ last.arg = <<FALSE, TRUE>>
    /\ name_table.kind = "dict"
    /\ last.st = "ok"
    /\ last.val[1].value = <<65, 98, 95, 49, 48>>

-----------------------------------------------------------------------------
(* Property values (properties/primitives.py, properties/byte_property.py). *)

HexDigit(n) == IF n < 10 THEN 48 + n ELSE 87 + n

HexText(b) == [i \in 1..(2 * Len(b)) |->
                 IF i % 2 = 1 THEN HexDigit(b[(i + 1) \div 2] \div 16)
                 ELSE HexDigit(b[i \div 2] % 16)]

\* str(uuid): 8-4-4-4-12 hexadecimal digits; str(UUID(bytes_le=b)).
Hyphenated(h) ==
    Slice(h, 0, 8) \o <<45>> \o Slice(h, 8, 12) \o <<45>> \o Slice(h, 12, 16) \o <<45>>
        \o Slice(h, 16, 20) \o <<45>> \o Slice(h, 20, 32)

UuidText(u) == Hyphenated(HexText(u))

GuidText(b) == UuidText(UuidFromBytesLe(b))

\* The index of a simple property: the world-save prefix, the Modern extra
\* byte with its optional index, or the header's index.  val = <<index, flag>>
\* (flag is the world-save flag byte or the Modern extra byte; 0 in Legacy).
ReadSimpleIndex(d, pos, header, is_asa, worldsave_format) ==
    IF worldsave_format THEN
        Then(_read_worldsave_simple_prefix(d, pos), LAMBDA pre :
        R("ok", <<pre.val[3], pre.val[2]>>, pre.pos))
    ELSE IF is_asa THEN
        Then(read_uint8(d, pos), LAMBDA extra_byte :
        IF extra_byte.val[1] % 2 = 1
        THEN Then(read_int32(d, extra_byte.pos), LAMBDA index :
                  R("ok", <<index.val[1], extra_byte.val[1]>>, index.pos))
        ELSE R("ok", <<header.index, extra_byte.val[1]>>, extra_byte.pos))
    ELSE R("ok", <<header.index, 0>>, pos)

Int8Property_read(d, pos, header, is_asa, worldsave_format) ==
    Then(ReadSimpleIndex(d, pos, header, is_asa, worldsave_format), LAMBDA index :
    Then(read_int8(d, index.pos), LAMBDA value :
    R("ok", <<Prop("Int8Property", header.name, index.val[1], value.val)>>, value.pos)))

Int16Property_read(d, pos, header, is_asa, worldsave_format) ==
    Then(ReadSimpleIndex(d, pos, header, is_asa, worldsave_format), LAMBDA index :
    Then(read_int16(d, index.pos), LAMBDA value :
    R("ok", <<Prop("Int16Property", header.name, index.val[1], value.val)>>, value.pos)))

IntProperty_read(d, pos, header, is_asa, worldsave_format) ==
    Then(ReadSimpleIndex(d, pos, header, is_asa, worldsave_format), LAMBDA index :
    Then(read_int32(d, index.pos), LAMBDA value :
    R("ok", <<Prop("IntProperty", header.name, index.val[1], value.val)>>, value.pos)))

Int64Property_read(d, pos, header, is_asa, worldsave_format) ==
    Then(ReadSimpleIndex(d, pos, header, is_asa, worldsave_format), LAMBDA index :
    Then(read_int64(d, index.pos), LAMBDA value :
    R("ok", <<Prop("Int64Property", header.name, index.val[1], value.val)>>, value.pos)))

UInt16Property_read(d, pos, header, is_asa, worldsave_format) ==
    Then(ReadSimpleIndex(d, pos, header, is_asa, worldsave_format), LAMBDA index :
    Then(read_uint16(d, index.pos), LAMBDA value :
    R("ok", <<Prop("UInt16Property", header.name, index.val[1], value.val)>>, value.pos)))

UInt32Property_read(d, pos, header, is_asa, worldsave_format) ==
    Then(ReadSimpleIndex(d, pos, header, is_asa, worldsave_format), LAMBDA index :
    Then(read_uint32(d, index.pos), LAMBDA value :
    R("ok", <<Prop("UInt32Property", header.name, index.val[1], value.val)>>, value.pos)))

UInt64Property_read(d, pos, header, is_asa, worldsave_format) ==
    Then(ReadSimpleIndex(d, pos, header, is_asa, worldsave_format), LAMBDA index :
    Then(read_uint64(d, index.pos), LAMBDA value :
    R("ok", <<Prop("UInt64Property", header.name, index.val[1], value.val)>>, value.pos)))

FloatProperty_read(d, pos, header, is_asa, worldsave_format) ==
    Then(ReadSimpleIndex(d, pos, header, is_asa, worldsave_format), LAMBDA index :
    Then(read_float(d, index.pos), LAMBDA value :
    R("ok", <<Prop("FloatProperty", header.name, index.val[1], value.val)>>, value.pos)))

DoubleProperty_read(d, pos, header, is_asa, worldsave_format) ==
    Then(ReadSimpleIndex(d, pos, header, is_asa, worldsave_format), LAMBDA index :
    Then(read_double(d, index.pos), LAMBDA value :
    R("ok", <<Prop("DoubleProperty", header.name, index.val[1], value.val)>>, value.pos)))

\* BoolProperty.read: bit 4 of the world-save flag, the Modern extra byte
\* itself, or a Legacy value byte.
BoolProperty_read(d, pos, header, is_asa, worldsave_format) ==
    IF worldsave_format THEN
        Then(_read_worldsave_simple_prefix(d, pos), LAMBDA pre :
        R("ok", <<Prop("BoolProperty", header.name, pre.val[3],
                       (pre.val[2] \div 16) % 2 = 1)>>, pre.pos))
    ELSE IF is_asa THEN
        Then(read_uint8(d, pos), LAMBDA extra_byte :
        R("ok", <<Prop("BoolProperty", header.name, header.index, extra_byte.val[1] # 0)>>,
          extra_byte.pos))
    ELSE
        Then(read_uint8(d, pos), LAMBDA value :
        R("ok", <<Prop("BoolProperty", header.name, header.index, value.val[1] # 0)>>,
          value.pos))

StrProperty_read(d, pos, header, is_asa, worldsave_format) ==
    Then(ReadSimpleIndex(d, pos, header, is_asa, worldsave_format), LAMBDA index :
    Then(read_string(d, index.pos), LAMBDA value :
    R("ok", <<Prop("StrProperty", header.name, index.val[1], value.val)>>, value.pos)))

\* ObjectProperty(name, index, _object_id, _object_name): an absent field
\* (None) is <<>>, a present one a one-element tuple.
ObjectRef(object_id, object_name) == [object_id |-> object_id, object_name |-> object_name]

ObjectProperty_read(d, pos, header, is_asa, nt, worldsave_format) ==
    IF worldsave_format THEN
        Then(_read_worldsave_simple_prefix(d, pos), LAMBDA pre :
        Then(read_uint16(d, pre.pos), LAMBDA marker :
        IF marker.val[1] = 1 THEN
            Then(read_int32(d, marker.pos), LAMBDA name_id :
            Then(read_int32(d, name_id.pos), LAMBDA name_instance :
            R("ok",
              <<Prop("ObjectProperty", header.name, header.index,
                     ObjectRef(<<>>,
                       <<Suffixed(
                           IF TableTruthy(nt) /\ nt.kind = "dict"
                           THEN TableGet(nt, name_id.val[1],
                                         <<95, 95, 85, 78, 75, 78, 79, 87, 78, 95>> \o IntText(name_id.val[1]) \o <<95, 95>>)
                           ELSE <<95, 95, 85, 78, 75, 78, 79, 87, 78, 95>> \o IntText(name_id.val[1]) \o <<95, 95>>,
                           name_instance.val[1])>>))>>,
              name_instance.pos)))
        ELSE
            Then(read_bytes(d, marker.pos, 16), LAMBDA guid_bytes :
            R("ok",
              <<Prop("ObjectProperty", header.name, header.index,
                     IF AllZero(guid_bytes.val) THEN ObjectRef(<<>>, <<>>)
                     ELSE ObjectRef(<<>>, <<GuidText(guid_bytes.val)>>))>>,
              guid_bytes.pos))))
    ELSE IF is_asa THEN
        Then(ReadSimpleIndex(d, pos, header, TRUE, FALSE), LAMBDA index :
        Then(read_int32(d, index.pos), LAMBDA exists_flag :
        IF exists_flag.val[1] = 1
              /\ (IF header.data_size = 0 THEN header.index ELSE header.data_size) > 5
        THEN Then(read_string(d, exists_flag.pos), LAMBDA path :
             R("ok", <<Prop("ObjectProperty", header.name, index.val[1],
                            ObjectRef(<<>>, <<path.val>>))>>, path.pos))
        ELSE IF exists_flag.val[1] = 0
        THEN Then(read_int32(d, exists_flag.pos), LAMBDA marker :
             R("ok", <<Prop("ObjectProperty", header.name, index.val[1],
                            ObjectRef(<<>>, <<>>))>>, marker.pos))
        ELSE R("ok", <<Prop("ObjectProperty", header.name, index.val[1],
                            ObjectRef(<<>>, <<>>))>>, exists_flag.pos)))
    ELSE IF header.data_size >= 8 THEN
        Then(read_int32(d, pos), LAMBDA ref_type :
        IF ref_type.val[1] = 0
        THEN Then(read_int32(d, ref_type.pos), LAMBDA obj_id :
             R("ok", <<Prop("ObjectProperty", header.name, header.index,
                            ObjectRef(obj_id.val, <<>>))>>, obj_id.pos))
        ELSE Then(read_name(d, IF ref_type.val[1] = 1 THEN ref_type.pos
                               ELSE skip(d, ref_type.pos, 0 - 4).pos, nt),
                  LAMBDA name_value :
             R("ok", <<Prop("ObjectProperty", header.name, header.index,
                            ObjectRef(<<>>, <<name_value.val>>))>>, name_value.pos)))
    ELSE IF header.data_size = 4 THEN
        Then(read_int32(d, pos), LAMBDA obj_id :
        R("ok", <<Prop("ObjectProperty", header.name, header.index,
                       ObjectRef(obj_id.val, <<>>))>>, obj_id.pos))
    ELSE
        R("ok", <<Prop("ObjectProperty", header.name, header.index, ObjectRef(<<>>, <<>>))>>,
          skip(d, pos, header.data_size).pos)

\* SoftObjectProperty(name, index, _path, _sub_path)
SoftObjectProperty_read(d, pos, header, is_asa, nt, worldsave_format) ==
    IF worldsave_format THEN
        Then(_read_worldsave_simple_prefix(d, pos), LAMBDA pre :
        Then(IF TableTruthy(nt) /\ nt.kind = "dict" THEN read_name(d, pre.pos, nt)
             ELSE read_string(d, pre.pos), LAMBDA path :
        Then(read_int32(d, path.pos), LAMBDA padding :
        R("ok", <<Prop("SoftObjectProperty", header.name, pre.val[3],
                       [path |-> path.val, sub_path |-> <<>>])>>, padding.pos))))
    ELSE IF is_asa THEN
        Then(ReadSimpleIndex(d, pos, header, TRUE, FALSE), LAMBDA index :
        Then(read_string(d, index.pos), LAMBDA path :
        Then(read_string(d, path.pos), LAMBDA sub_path :
        Then(read_int32(d, sub_path.pos), LAMBDA padding :
        R("ok", <<Prop("SoftObjectProperty", header.name, index.val[1],
                       [path |-> path.val, sub_path |-> sub_path.val])>>, padding.pos)))))
    ELSE
        Then(read_string(d, pos), LAMBDA path :
        Then(read_string(d, path.pos), LAMBDA sub_path :
        R("ok", <<Prop("SoftObjectProperty", header.name, header.index,
                       [path |-> path.val, sub_path |-> sub_path.val])>>, sub_path.pos)))


\* ByteProperty(name, index, enum_name, _byte_value | _enum_value)
ByteValue(enum_name, byte_value, enum_value) ==
    [enum_name |-> enum_name, byte_value |-> byte_value, enum_value |-> enum_value]

ByteProperty_read(d, pos, header, is_asa, nt, worldsave_format) ==
    IF worldsave_format THEN
        Then(read_int32(d, pos), LAMBDA marker :
        IF marker.val[1] = 0 THEN
            Then(read_int32(d, marker.pos), LAMBDA data_size :
            Then(read_uint8(d, data_size.pos), LAMBDA flag :
            Then(IF flag.val[1] % 2 = 1 THEN read_int32(d, flag.pos)
                 ELSE R("ok", <<0>>, flag.pos), LAMBDA array_index :
            Then(read_uint8(d, array_index.pos), LAMBDA byte_value :
            R("ok", <<Prop("ByteProperty", header.name, header.index,
                           ByteValue(NAME_NONE, byte_value.val, <<>>))>>, byte_value.pos)))))
        ELSE IF ~(TableTruthy(nt) /\ nt.kind = "dict") THEN R("ValueError", <<>>, marker.pos)
        ELSE
            \* enum type (id, instance), a marker, the blueprint (id,
            \* instance), zeros and the data size; the flag; the enum value
            \* (id, instance)
            Then(ReadInt32s(d, marker.pos, 7, <<>>), LAMBDA enum_type :
            Then(read_uint8(d, enum_type.pos), LAMBDA flag :
            Then(ReadInt32s(d, flag.pos, 2, <<>>), LAMBDA enum_value :
            R("ok",
              <<Prop("ByteProperty", header.name, header.index,
                     ByteValue(
                       TableGet(nt, enum_type.val[1],
                                <<95, 95, 85, 78, 75, 78, 79, 87, 78, 95>> \o IntText(enum_type.val[1]) \o <<95, 95>>),
                       <<>>,
                       <<Suffixed(TableGet(nt, enum_value.val[1],
                                    <<95, 95, 85, 78, 75, 78, 79, 87, 78, 95>> \o IntText(enum_value.val[1]) \o <<95, 95>>),
                                  enum_value.val[2])>>))>>,
              enum_value.pos)))))
    ELSE IF is_asa THEN
        IF header.index = 1 THEN
            Then(read_uint8(d, pos), LAMBDA extra_byte :
            Then(IF extra_byte.val[1] % 2 = 1 THEN read_int32(d, extra_byte.pos)
                 ELSE R("ok", <<0>>, extra_byte.pos), LAMBDA array_index :
            Then(read_uint8(d, array_index.pos), LAMBDA byte_value :
            R("ok", <<Prop("ByteProperty", header.name, array_index.val[1],
                           ByteValue(NAME_NONE, byte_value.val, <<>>))>>, byte_value.pos))))
        ELSE
            Then(read_bytes(d, pos, header.index), LAMBDA enum_name_bytes :
            Then(read_int32(d, enum_name_bytes.pos), LAMBDA extra1 :
            Then(read_string(d, extra1.pos), LAMBDA blueprint_path :
            Then(read_int32(d, blueprint_path.pos), LAMBDA zeros :
            Then(read_int32(d, zeros.pos), LAMBDA data_size :
            Then(read_uint8(d, data_size.pos), LAMBDA extra_byte :
            Then(IF extra_byte.val[1] % 2 = 1 THEN read_int32(d, extra_byte.pos)
                 ELSE R("ok", <<0>>, extra_byte.pos), LAMBDA array_index :
            Then(read_string(d, array_index.pos), LAMBDA enum_value :
            R("ok", <<Prop("ByteProperty", header.name, array_index.val[1],
                           ByteValue(DecodeLatin1(DropLast(enum_name_bytes.val, 1)), <<>>,
                                     <<enum_value.val>>))>>, enum_value.pos)))))))))
    ELSE
        Then(read_name(d, pos, nt), LAMBDA enum_name :
        IF enum_name.val = NAME_NONE THEN
            Then(read_uint8(d, enum_name.pos), LAMBDA byte_value :
            R("ok", <<Prop("ByteProperty", header.name, header.index,
                           ByteValue(enum_name.val, byte_value.val, <<>>))>>, byte_value.pos))
        ELSE
            Then(read_name(d, enum_name.pos, nt), LAMBDA enum_value :
            R("ok", <<Prop("ByteProperty", header.name, header.index,
                           ByteValue(enum_name.val, <<>>, <<enum_value.val>>))>>,
              enum_value.pos)))

-----------------------------------------------------------------------------
(* The property registry and the property loop (properties/registry.py). *)

\* PROPERTY_REGISTRY's readers for the simple types.
SimpleTypes ==
    {<<73, 110, 116, 56, 80, 114, 111, 112, 101, 114, 116, 121>>, <<73, 110, 116, 49, 54, 80, 114, 111, 112, 101, 114, 116, 121>>, <<73, 110, 116, 80, 114, 111, 112, 101, 114, 116, 121>>, <<73, 110, 116, 54, 52, 80, 114, 111, 112, 101, 114, 116, 121>>,
     <<85, 73, 110, 116, 49, 54, 80, 114, 111, 112, 101, 114, 116, 121>>, <<85, 73, 110, 116, 51, 50, 80, 114, 111, 112, 101, 114, 116, 121>>, <<85, 73, 110, 116, 54, 52, 80, 114, 111, 112, 101, 114, 116, 121>>, <<70, 108, 111, 97, 116, 80, 114, 111, 112, 101, 114, 116, 121>>,
     <<68, 111, 117, 98, 108, 101, 80, 114, 111, 112, 101, 114, 116, 121>>, <<66, 111, 111, 108, 80, 114, 111, 112, 101, 114, 116, 121>>, <<83, 116, 114, 80, 114, 111, 112, 101, 114, 116, 121>>, <<78, 97, 109, 101, 80, 114, 111, 112, 101, 114, 116, 121>>,
     <<79, 98, 106, 101, 99, 116, 80, 114, 111, 112, 101, 114, 116, 121>>, <<83, 111, 102, 116, 79, 98, 106, 101, 99, 116, 80, 114, 111, 112, 101, 114, 116, 121>>, <<66, 121, 116, 101, 80, 114, 111, 112, 101, 114, 116, 121>>}

\* The readers of the compound types (properties/compound.py) read property
\* lists themselves; they are defined with the structs, further down.
RECURSIVE ArrayProperty_read(_, _, _, _, _, _)
RECURSIVE StructProperty_read(_, _, _, _, _, _)
RECURSIVE MapProperty_read(_, _, _, _, _, _)

CompoundTypes == {<<65, 114, 114, 97, 121, 80, 114, 111, 112, 101, 114, 116, 121>>, <<83, 116, 114, 117, 99, 116, 80, 114, 111, 112, 101, 114, 116, 121>>, <<77, 97, 112, 80, 114, 111, 112, 101, 114, 116, 121>>}

\* The keys of PROPERTY_REGISTRY.
PROPERTY_REGISTRY == SimpleTypes \cup CompoundTypes

\* property_class.read(reader, header, is_asa, ...) for the class registered
\* under header.type_name.  Outside world-save framing only the compound,
\* byte, name and object readers are handed the name table.
ReadRegistered(d, pos, header, is_asa, nt, worldsave_format) ==
    CASE header.type_name = <<73, 110, 116, 56, 80, 114, 111, 112, 101, 114, 116, 121>> ->
            Int8Property_read(d, pos, header, is_asa, worldsave_format)
      [] header.type_name = <<73, 110, 116, 49, 54, 80, 114, 111, 112, 101, 114, 116, 121>> ->
            Int16Property_read(d, pos, header, is_asa, worldsave_format)
      [] header.type_name = <<73, 110, 116, 80, 114, 111, 112, 101, 114, 116, 121>> ->
            IntProperty_read(d, pos, header, is_asa, worldsave_format)
      [] header.type_name = <<73, 110, 116, 54, 52, 80, 114, 111, 112, 101, 114, 116, 121>> ->
            Int64Property_read(d, pos, header, is_asa, worldsave_format)
      [] header.type_name = <<85, 73, 110, 116, 49, 54, 80, 114, 111, 112, 101, 114, 116, 121>> ->
            UInt16Property_read(d, pos, header, is_asa, worldsave_format)
      [] header.type_name = <<85, 73, 110, 116, 51, 50, 80, 114, 111, 112, 101, 114, 116, 121>> ->
            UInt32Property_read(d, pos, header, is_asa, worldsave_format)
      [] header.type_name = <<85, 73, 110, 116, 54, 52, 80, 114, 111, 112, 101, 114, 116, 121>> ->
            UInt64Property_read(d, pos, header, is_asa, worldsave_format)
      [] header.type_name = <<70, 108, 111, 97, 116, 80, 114, 111, 112, 101, 114, 116, 121>> ->
            FloatProperty_read(d, pos, header, is_asa, worldsave_format)
      [] header.type_name = <<68, 111, 117, 98, 108, 101, 80, 114, 111, 112, 101, 114, 116, 121>> ->
            DoubleProperty_read(d, pos, header, is_asa, worldsave_format)
      [] header.type_name = <<66, 111, 111, 108, 80, 114, 111, 112, 101, 114, 116, 121>> ->
            BoolProperty_read(d, pos, header, is_asa, worldsave_format)
      [] header.type_name = <<83, 116, 114, 80, 114, 111, 112, 101, 114, 116, 121>> ->
            StrProperty_read(d, pos, header, is_asa, worldsave_format)
      [] header.type_name = <<78, 97, 109, 101, 80, 114, 111, 112, 101, 114, 116, 121>> ->
            NameProperty_read(d, pos, header, is_asa, nt, worldsave_format)
      [] header.type_name = <<79, 98, 106, 101, 99, 116, 80, 114, 111, 112, 101, 114, 116, 121>> ->
            ObjectProperty_read(d, pos, header, is_asa, nt, worldsave_format)
      [] header.type_name = <<83, 111, 102, 116, 79, 98, 106, 101, 99, 116, 80, 114, 111, 112, 101, 114, 116, 121>> ->
            SoftObjectProperty_read(d, pos, header, is_asa,
                                    IF worldsave_format THEN nt ELSE NoTable,
                                    worldsave_format)
      [] header.type_name = <<66, 121, 116, 101, 80, 114, 111, 112, 101, 114, 116, 121>> ->
            ByteProperty_read(d, pos, header, is_asa, nt, worldsave_format)
      [] header.type_name = <<65, 114, 114, 97, 121, 80, 114, 111, 112, 101, 114, 116, 121>> ->
            ArrayProperty_read(d, pos, header, is_asa, nt, worldsave_format)
      [] header.type_name = <<83, 116, 114, 117, 99, 116, 80, 114, 111, 112, 101, 114, 116, 121>> ->
            StructProperty_read(d, pos, header, is_asa, nt, worldsave_format)
      [] header.type_name = <<77, 97, 112, 80, 114, 111, 112, 101, 114, 116, 121>> ->
            MapProperty_read(d, pos, header, is_asa, nt, worldsave_format)

\* A read_property that steps back over the terminator it has read.
read_property_mut(d, pos, is_asa, nt, worldsave_format) ==
    Then(read_property_header(d, pos, is_asa, nt, worldsave_format), LAMBDA header :
    IF header.val = <<>> THEN R("ok", <<>>, pos)
    ELSE IF header.val[1].type_name \notin PROPERTY_REGISTRY
    THEN R("UnknownPropertyError", <<>>, header.pos)
    ELSE ReadRegistered(d, header.pos, header.val[1], is_asa, nt, worldsave_format))

\* A read_property that takes an unregistered type for the end of the list.
read_property_unknown_mut(d, pos, is_asa, nt, worldsave_format) ==
    Then(read_property_header(d, pos, is_asa, nt, worldsave_format), LAMBDA header :
    IF header.val = <<>> THEN R("ok", <<>>, header.pos)
    ELSE IF header.val[1].type_name \notin PROPERTY_REGISTRY
    THEN R("ok", <<>>, header.pos)
    ELSE ReadRegistered(d, header.pos, header.val[1], is_asa, nt, worldsave_format))

\* read_property: val = <<property>>, or <<>> for None (end of the list).
read_property(d, pos, is_asa, nt, worldsave_format) ==
    Then(read_property_header(d, pos, is_asa, nt, worldsave_format), LAMBDA header :
    IF header.val = <<>> THEN R("ok", <<>>, header.pos)
    ELSE IF header.val[1].type_name \notin PROPERTY_REGISTRY
    THEN R("UnknownPropertyError", <<>>, header.pos)
    ELSE ReadRegistered(d, header.pos, header.val[1], is_asa, nt, worldsave_format))


\* --- read_properties as a state machine ---

\* Longest property list written, and the bytes written after the sentinel.
MaxProps == 2
MaxTrail == 2

\* The names a stream can hold: the sentinel, two property names, a type
\* that is not registered, and the registered simple types.
TypeList ==
    <<<<73, 110, 116, 56, 80, 114, 111, 112, 101, 114, 116, 121>>, <<73, 110, 116, 49, 54, 80, 114, 111, 112, 101, 114, 116, 121>>, <<73, 110, 116, 80, 114, 111, 112, 101, 114, 116, 121>>, <<73, 110, 116, 54, 52, 80, 114, 111, 112, 101, 114, 116, 121>>,
      <<85, 73, 110, 116, 49, 54, 80, 114, 111, 112, 101, 114, 116, 121>>, <<85, 73, 110, 116, 51, 50, 80, 114, 111, 112, 101, 114, 116, 121>>, <<85, 73, 110, 116, 54, 52, 80, 114, 111, 112, 101, 114, 116, 121>>, <<70, 108, 111, 97, 116, 80, 114, 111, 112, 101, 114, 116, 121>>,
      <<68, 111, 117, 98, 108, 101, 80, 114, 111, 112, 101, 114, 116, 121>>, <<66, 111, 111, 108, 80, 114, 111, 112, 101, 114, 116, 121>>, <<83, 116, 114, 80, 114, 111, 112, 101, 114, 116, 121>>, <<78, 97, 109, 101, 80, 114, 111, 112, 101, 114, 116, 121>>,
      <<79, 98, 106, 101, 99, 116, 80, 114, 111, 112, 101, 114, 116, 121>>, <<83, 111, 102, 116, 79, 98, 106, 101, 99, 116, 80, 114, 111, 112, 101, 114, 116, 121>>, <<66, 121, 116, 101, 80, 114, 111, 112, 101, 114, 116, 121>>>>

AllNames == <<<<78, 111, 110, 101>>, <<65, 98>>, <<67, 100>>, <<88, 120, 80, 114, 111, 112, 101, 114, 116, 121>>>> \o TypeList

NameNo(txt) == CHOOSE i \in 1..Len(AllNames) : AllNames[i] = txt

\* The key of the i-th name in the dict table.
KeyOf(i) == 100 + 7 * i

PropsListTable == [kind |-> "list", names |-> AllNames]
PropsDictTable ==
    [kind |-> "dict",
     names |-> [k \in {KeyOf(i) : i \in 1..Len(AllNames)} |-> AllNames[(k - 100) \div 7]]]

\* The framings: Legacy with inline strings, Legacy with the list table of a
\* world save, Modern with inline strings, Modern world save.
Framings ==
    {[is_asa |-> FALSE, worldsave_format |-> FALSE, table |-> NoTable],
     [is_asa |-> FALSE, worldsave_format |-> FALSE, table |-> PropsListTable],
     [is_asa |-> TRUE, worldsave_format |-> FALSE, table |-> NoTable],
     [is_asa |-> TRUE, worldsave_format |-> TRUE, table |-> PropsDictTable]}

\* A string as the game writes it: length with the NUL, bytes, NUL.
EncString(txt) == IF txt = <<>> THEN EncI32(0) ELSE EncI32(Len(txt) + 1) \o txt \o <<0>>

\* A name as the framing writes it.
EncName(f, txt) ==
    IF f.table.kind = "none" THEN EncString(txt)
    ELSE IF f.table.kind = "list" THEN Ref(NameNo(txt), 0)
    ELSE Ref(KeyOf(NameNo(txt)), 0)

TypeWidth(ty) ==
    CASE ty \in {<<73, 110, 116, 56, 80, 114, 111, 112, 101, 114, 116, 121>>} -> 1
      [] ty \in {<<73, 110, 116, 49, 54, 80, 114, 111, 112, 101, 114, 116, 121>>, <<85, 73, 110, 116, 49, 54, 80, 114, 111, 112, 101, 114, 116, 121>>} -> 2
      [] ty \in {<<73, 110, 116, 80, 114, 111, 112, 101, 114, 116, 121>>, <<85, 73, 110, 116, 51, 50, 80, 114, 111, 112, 101, 114, 116, 121>>, <<70, 108, 111, 97, 116, 80, 114, 111, 112, 101, 114, 116, 121>>} -> 4
      [] ty \in {<<73, 110, 116, 54, 52, 80, 114, 111, 112, 101, 114, 116, 121>>, <<85, 73, 110, 116, 54, 52, 80, 114, 111, 112, 101, 114, 116, 121>>, <<68, 111, 117, 98, 108, 101, 80, 114, 111, 112, 101, 114, 116, 121>>} -> 8
      [] OTHER -> 0

\* What follows the index bytes, per type.
EncPayload(f, ty) ==
    CASE TypeWidth(ty) > 0 -> [i \in 1..TypeWidth(ty) |-> i]
      [] ty = <<66, 111, 111, 108, 80, 114, 111, 112, 101, 114, 116, 121>> -> IF f.is_asa THEN <<>> ELSE <<1>>
      [] ty = <<83, 116, 114, 80, 114, 111, 112, 101, 114, 116, 121>> -> EncString(<<104, 105>>)
      [] ty = <<78, 97, 109, 101, 80, 114, 111, 112, 101, 114, 116, 121>> ->
            IF f.is_asa /\ ~f.worldsave_format THEN EncString(<<67, 100>>) ELSE EncName(f, <<67, 100>>)
      [] ty = <<79, 98, 106, 101, 99, 116, 80, 114, 111, 112, 101, 114, 116, 121>> ->
            IF f.worldsave_format THEN EncI16(0) \o <<1, 2>> \o Zeros(14)
            ELSE IF f.is_asa THEN EncI32(0 - 1)
            ELSE EncI32(0) \o EncI32(5)
      [] ty = <<83, 111, 102, 116, 79, 98, 106, 101, 99, 116, 80, 114, 111, 112, 101, 114, 116, 121>> ->
            IF f.worldsave_format THEN EncName(f, <<67, 100>>) \o EncI32(0)
            ELSE IF f.is_asa THEN EncString(<<112>>) \o EncString(<<>>) \o EncI32(0)
            ELSE EncString(<<112>>) \o EncString(<<>>)
      [] ty = <<66, 121, 116, 101, 80, 114, 111, 112, 101, 114, 116, 121>> ->
            IF f.is_asa THEN <<9>> ELSE EncName(f, <<78, 111, 110, 101>>) \o <<9>>
      [] OTHER -> <<>>

\* The bytes between the header and the payload: the world-save prefix with
\* its flag, the Modern extra byte, and the array index when it is not 0.
\* A Modern bool stores its value in the extra byte, a world-save bool in
\* bit 4 of the flag.
EncIndex(f, ty, arr, size) ==
    IF f.worldsave_format
    THEN EncI32(0) \o EncI32(size)
           \o <<(IF ty = <<66, 111, 111, 108, 80, 114, 111, 112, 101, 114, 116, 121>> THEN 16 ELSE 0) + (IF arr # 0 THEN 1 ELSE 0)>>
           \o (IF arr # 0 THEN EncI32(arr) ELSE <<>>)
    ELSE IF f.is_asa
    THEN IF ty = <<66, 111, 111, 108, 80, 114, 111, 112, 101, 114, 116, 121>> THEN <<1>>
         ELSE <<IF arr # 0 THEN 1 ELSE 0>> \o (IF arr # 0 THEN EncI32(arr) ELSE <<>>)
    ELSE <<>>

\* One property: header, index bytes, payload.
EncProperty(f, p) ==
    LET payload == EncPayload(f, p.type)
        value == EncIndex(f, p.type, p.arr, Len(payload)) \o payload
    IN IF f.worldsave_format
       THEN EncName(f, p.name) \o EncName(f, p.type) \o value
       ELSE EncName(f, p.name) \o EncName(f, p.type) \o EncI32(Len(value))
              \o EncI32(IF ~f.is_asa THEN p.arr
                        ELSE IF p.type = <<66, 121, 116, 101, 80, 114, 111, 112, 101, 114, 116, 121>> THEN 1 ELSE 0)
              \o value

Specimens ==
    { [type |-> TypeList[i], name |-> <<65, 98>>, arr |-> 0] : i \in 1..Len(TypeList) }
      \cup {[type |-> <<73, 110, 116, 80, 114, 111, 112, 101, 114, 116, 121>>, name |-> <<67, 100>>, arr |-> 3],
            [type |-> <<83, 116, 114, 80, 114, 111, 112, 101, 114, 116, 121>>, name |-> <<65, 98>>, arr |-> 3]}

RECURSIVE SpecimenLists(_)
SpecimenLists(n) ==
    IF n = 0 THEN {<<>>}
    ELSE SpecimenLists(n - 1)
           \cup { <<p>> \o l : p \in Specimens, l \in { x \in SpecimenLists(n - 1) : Len(x) = n - 1 } }

RECURSIVE EncList(_, _)
EncList(f, l) == IF l = <<>> THEN <<>> ELSE EncProperty(f, Head(l)) \o EncList(f, Tail(l))

Sentinel(f) == EncName(f, <<78, 111, 110, 101>>)


\* A stream holds a property list and its sentinel, then up to MaxTrail bytes
\* of something else; or a list whose sentinel is cut short; or a list with
\* a property of an unregistered type.
PropsInit ==
    \E f \in Framings, l \in SpecimenLists(MaxProps), damage \in {"none", "cut", "unknown"},
       trail \in {0, MaxTrail} :
        LET body == EncList(f, l) \o Sentinel(f) IN
        /\ damage # "none" => trail = 0
        /\ data = CASE damage = "none" -> body \o [i \in 1..trail |-> 7]
                    [] damage = "cut" -> DropLast(body, 3)
                    [] damage = "unknown" ->
                         EncList(f, l)
                           \o EncProperty(f, [type |-> <<88, 120, 80, 114, 111, 112, 101, 114, 116, 121>>, name |-> <<65, 98>>, arr |-> 0])
                           \o Sentinel(f)
        /\ written = [valid |-> damage = "none", count |-> Len(l), end |-> Len(body)]
        /\ name_table = f.table
        /\ framing = [is_asa |-> f.is_asa, worldsave_format |-> f.worldsave_format]
        /\ position = 0
        /\ properties = <<>>
        /\ last = [op |-> "new", arg |-> 0, pos0 |-> 0, st |-> "ok", val |-> <<>>]
        /\ source = NoSource
        /\ load = NoLoad

\* read_properties is at the top of its loop, about to call read_property.
InLoop == last.op \in {"new", "append"}

\* prop = read_property(reader, ...): the reader moves, the outcome is held.
ReadProperty ==
    /\ InLoop
    /\ \E r \in {read_property(data, position, framing.is_asa, name_table,
                               framing.worldsave_format)} :
        /\ position' = r.pos
        /\ last' = [op |-> "read_property", arg |-> 0, pos0 |-> position, st |-> r.st,
                    val |-> r.val]
    /\ UNCHANGED <<data, source, name_table, properties, framing, written, load>>

\* properties.append(prop), and the loop turns.
ReadPropertyAppend ==
    /\ last.op = "read_property"
    /\ last.st = "ok"
    /\ last.val # <<>>
    /\ properties' = Append(properties, last.val[1])
    /\ last' = [last EXCEPT !.op = "append"]
    /\ UNCHANGED <<data, position, source, name_table, framing, written, load>>

\* read_property returned None: the loop breaks and the list is returned.
ReadPropertiesReturn ==
    /\ last.op = "read_property"
    /\ last.st = "ok"
    /\ last.val = <<>>
    /\ last' = [op |-> "read_properties", arg |-> 0, pos0 |-> last.pos0, st |-> "ok",
                val |-> properties]
    /\ UNCHANGED <<data, position, source, name_table, properties, framing, written, load>>

\* read_property raised: read_properties raises the same error.
ReadPropertiesRaise ==
    /\ last.op = "read_property"
    /\ last.st # "ok"
    /\ last' = [op |-> "read_properties", arg |-> 0, pos0 |-> last.pos0,
                st |-> last.st, val |-> <<>>]
    /\ UNCHANGED <<data, position, source, name_table, properties, framing, written, load>>

PropsNext ==
    ReadProperty \/ ReadPropertyAppend \/ ReadPropertiesReturn \/ ReadPropertiesRaise

SpecProps == PropsInit /\ [][PropsNext]_vars

-----------------------------------------------------------------------------
(* Game objects and their headers (game_objects/game_object.py,            *)
(* game_objects/location.py, files/base.py, files/cloud_inventory.py,      *)
(* files/world_save.py).                                                    *)

\* [reader.read_string() for _ in range(n)]: val is the list of texts.
RECURSIVE ReadStrings(_, _, _, _)
ReadStrings(d, pos, n, acc) ==
    IF n <= 0 THEN R("ok", acc, pos)
    ELSE Then(read_string(d, pos), LAMBDA s :
         ReadStrings(d, s.pos, n - 1, Append(acc, s.val)))

\* n floating point values of the given width, one read each: val is their
\* bit patterns end to end.
RECURSIVE ReadFloats(_, _, _, _, _)
ReadFloats(d, pos, n, width, acc) ==
    IF n = 0 THEN R("ok", acc, pos)
    ELSE Then(Unpack(d, pos, width), LAMBDA x :
         ReadFloats(d, x.pos, n - 1, width, acc \o x.val))

\* LocationData.read: x, y, z, pitch, yaw, roll as doubles (Modern) or
\* floats (Legacy).
LocationData_read(d, pos, is_asa) ==
    IF is_asa THEN ReadFloats(d, pos, 6, 8, <<>>) ELSE ReadFloats(d, pos, 6, 4, <<>>)

\* GameObject(...): the fields the loaders set.  location, extra_data: <<>>
\* for None, else a one-element tuple.  stored is the int32 a header keeps
\* in its properties-offset field (not a field of the class: the readers
\* below note it so that it can be compared with properties_offset).
\* start and end are the reader positions at which the decoding of the
\* properties began and ended (-1: not decoded).  parent is the position in
\* the object list of the parent (0 for None); components holds the entries
\* <<primary name, position in the object list>> in insertion order.
GameObject(id, guid, class_name, is_item, names, location, properties_offset, stored) ==
    [id |-> id, guid |-> guid, class_name |-> class_name, is_item |-> is_item,
     names |-> names, location |-> location, properties_offset |-> properties_offset,
     stored |-> stored, properties |-> <<>>, extra_data |-> <<>>,
     start |-> 0 - 1, end |-> 0 - 1, loaded |-> FALSE,
     parent |-> 0, components |-> <<>>]

\* entries[key] = value on a dict kept as a sequence of <<key, value>>
\* pairs in insertion order.
Put(entries, key, value) ==
    IF \E i \in DOMAIN entries : entries[i][1] = key
    THEN [i \in DOMAIN entries |-> IF entries[i][1] = key THEN <<key, value>> ELSE entries[i]]
    ELSE Append(entries, <<key, value>>)

DictHas(entries, key) == \E i \in DOMAIN entries : entries[i][1] = key

DictGet(entries, key) == entries[CHOOSE i \in DOMAIN entries : entries[i][1] = key][2]

-----------------------------------------------------------------------------
(* GameObjectContainer: the object list and its three lookup caches.  An   *)
(* object is referred to by its position in the object list.               *)

GameObjectContainer(objects) ==
    [objects |-> objects, _by_guid |-> <<>>, _by_class |-> <<>>, _by_name |-> <<>>]

\* primary_name is None or "": both are false in a condition.
HasPrimaryName(obj) == obj.names # <<>> /\ obj.names[1] # <<>>

has_parent_names(obj) == Len(obj.names) > 1

_invalidate_caches(c) == [c EXCEPT !._by_guid = <<>>, !._by_class = <<>>, !._by_name = <<>>]

add(c, obj) == _invalidate_caches([c EXCEPT !.objects = Append(@, obj)])

\* The body of the loop of _build_caches for the object at position i.
CacheObject(c, i) ==
    [c EXCEPT
       !._by_guid = IF c.objects[i].guid # <<>> THEN Put(@, c.objects[i].guid, i) ELSE @,
       !._by_class = IF c.objects[i].class_name # <<>>
                     THEN Put(@, c.objects[i].class_name,
                              Append(IF DictHas(@, c.objects[i].class_name)
                                     THEN DictGet(@, c.objects[i].class_name) ELSE <<>>, i))
                     ELSE @,
       !._by_name = IF HasPrimaryName(c.objects[i]) THEN Put(@, c.objects[i].names[1], i) ELSE @]

RECURSIVE CacheFrom(_, _)
CacheFrom(c, i) == IF i > Len(c.objects) THEN c ELSE CacheFrom(CacheObject(c, i), i + 1)

_build_caches(c) ==
    IF c._by_guid = <<>> /\ c.objects # <<>> THEN CacheFrom(c, 1) ELSE c

\* The getters return the container (its caches may have been built) and
\* the value: <<>> for None, else the position of the object.
Looked(c, cache, key) ==
    [c |-> c, val |-> IF DictHas(cache, key) THEN <<DictGet(cache, key)>> ELSE <<>>]

get_by_guid(c, guid) == Looked(_build_caches(c), _build_caches(c)._by_guid, guid)

get_by_name(c, name) == Looked(_build_caches(c), _build_caches(c)._by_name, name)

\* The list of the class, [] when the class is unknown.
get_by_class(c, class_name) ==
    [c |-> _build_caches(c),
     val |-> IF DictHas(_build_caches(c)._by_class, class_name)
             THEN DictGet(_build_caches(c)._by_class, class_name) ELSE <<>>]

add_component_mut(c, parent, component) ==
    IF HasPrimaryName(c.objects[component])
    THEN [c EXCEPT !.objects[component].parent = parent]
    ELSE c

\* parent.add_component(component), both given by position.
add_component(c, parent, component) ==
    IF HasPrimaryName(c.objects[component])
    THEN [c EXCEPT !.objects[parent].components = Put(@, c.objects[component].names[1], component),
                   !.objects[component].parent = parent]
    ELSE c

\* The body of the loop of build_relationships for the object at position i.
LinkObject(c, i) ==
    IF has_parent_names(c.objects[i])
    THEN \* a GameObject is always true in a condition
         IF get_by_name(c, c.objects[i].names[Len(c.objects[i].names)]).val # <<>>
         THEN add_component(get_by_name(c, c.objects[i].names[Len(c.objects[i].names)]).c,
                            get_by_name(c, c.objects[i].names[Len(c.objects[i].names)]).val[1], i)
         ELSE get_by_name(c, c.objects[i].names[Len(c.objects[i].names)]).c
    ELSE c

RECURSIVE LinkFrom(_, _)
LinkFrom(c, i) == IF i > Len(c.objects) THEN c ELSE LinkFrom(LinkObject(c, i), i + 1)

build_relationships(c) == LinkFrom(_build_caches(c), 1)

\* str(guid) if any(b != 0 for b in guid.bytes) else ""
GuidOrEmpty(g) == IF AllZero(g) THEN <<>> ELSE UuidText(g)

\* GameObject.read_header (Legacy profile, tribe and cloud files).
GameObject_read_header(d, pos, obj_id, is_asa) ==
    Then(read_guid(d, pos), LAMBDA guid :
    Then(read_string(d, guid.pos), LAMBDA class_name :
    Then(read_uint32(d, class_name.pos), LAMBDA is_item :
    Then(read_int32(d, is_item.pos), LAMBDA name_count :
    Then(ReadStrings(d, name_count.pos, name_count.val[1], <<>>), LAMBDA names :
    Then(read_uint32(d, names.pos), LAMBDA from_data_file :
    Then(read_int32(d, from_data_file.pos), LAMBDA data_file_index :
    Then(read_uint32(d, data_file_index.pos), LAMBDA has_location :
    Then(IF ~AllZero(has_location.val)
         THEN LocationData_read(d, has_location.pos, is_asa)
         ELSE R("ok", <<>>, has_location.pos), LAMBDA location :
    Then(read_int32(d, location.pos), LAMBDA properties_offset :
    Then(read_int32(d, properties_offset.pos), LAMBDA unknown :
    R("ok", <<GameObject(obj_id, GuidOrEmpty(guid.val), class_name.val,
                         ~AllZero(is_item.val), names.val,
                         IF AllZero(has_location.val) THEN <<>> ELSE <<location.val>>,
                         properties_offset.val[1], properties_offset.val[1])>>,
      unknown.pos))))))))))))

\* The version from which a Modern header's stored offset is one short.
OffByOneVersion == 7

\* A _read_object_header whose Modern branch adds the 1 at every version.
_read_object_header_mut(d, pos, obj_id, is_asa, version) ==
    IF is_asa THEN
        Then(read_guid(d, pos), LAMBDA guid :
        Then(read_string(d, guid.pos), LAMBDA class_name :
        Then(read_int32(d, class_name.pos), LAMBDA field1 :
        Then(read_int32(d, field1.pos), LAMBDA names_count :
        Then(ReadStrings(d, names_count.pos, names_count.val[1], <<>>), LAMBDA names :
        Then(skip(d, names.pos, 12), LAMBDA pad :
        Then(read_int32(d, pad.pos), LAMBDA stored_props_offset :
        Then(skip(d, stored_props_offset.pos, 4), LAMBDA trail :
        R("ok", <<GameObject(obj_id, UuidText(guid.val), class_name.val, FALSE,
                             names.val, <<>>,
                             stored_props_offset.val[1] + 1,
                             stored_props_offset.val[1])>>,
          IF version >= OffByOneVersion /\ remaining(d, trail.pos) > 0
             /\ peek_bytes(d, trail.pos, 1).val[1] = 0
          THEN skip(d, trail.pos, 1).pos ELSE trail.pos)))))))))
    ELSE GameObject_read_header(d, pos, obj_id, FALSE)

\* ArkFile._read_object_header (profile and tribe files).
_read_object_header(d, pos, obj_id, is_asa, version) ==
    IF is_asa THEN
        Then(read_guid(d, pos), LAMBDA guid :
        Then(read_string(d, guid.pos), LAMBDA class_name :
        Then(read_int32(d, class_name.pos), LAMBDA field1 :
        Then(read_int32(d, field1.pos), LAMBDA names_count :
        Then(ReadStrings(d, names_count.pos, names_count.val[1], <<>>), LAMBDA names :
        Then(skip(d, names.pos, 12), LAMBDA pad :
        Then(read_int32(d, pad.pos), LAMBDA stored_props_offset :
        Then(skip(d, stored_props_offset.pos, 4), LAMBDA trail :
        R("ok", <<GameObject(obj_id, UuidText(guid.val), class_name.val, FALSE,
                             names.val, <<>>,
                             stored_props_offset.val[1]
                               + (IF version >= OffByOneVersion THEN 1 ELSE 0),
                             stored_props_offset.val[1])>>,
          IF version >= OffByOneVersion /\ remaining(d, trail.pos) > 0
             /\ peek_bytes(d, trail.pos, 1).val[1] = 0
          THEN skip(d, trail.pos, 1).pos ELSE trail.pos)))))))))
    ELSE GameObject_read_header(d, pos, obj_id, FALSE)


\* The version that is Legacy or Modern by its bytes, and the width of the
\* field that decides.
AmbiguousVersion == 6

\* ArkFile._detect_asa: val = <<TRUE>> or <<FALSE>>; the position is restored.
_detect_asa(d, pos, version) ==
    IF version >= OffByOneVersion THEN R("ok", <<TRUE>>, pos)
    ELSE IF version = AmbiguousVersion THEN
        Then(skip(d, pos, 4), LAMBDA count :
        Then(read_bytes(d, count.pos, 16), LAMBDA guid_bytes :
        R("ok", <<~AllZero(guid_bytes.val)>>, pos)))
    ELSE R("ok", <<FALSE>>, pos)

\* The int32 that lies 12 bytes into the padding of a Modern header, where
\* the layout keeps the properties offset (0 - 1 when the bytes are missing).
StoredInPadding(d, pos) ==
    IF pos + 16 <= Len(d) THEN ToI32(Slice(d, pos + 12, pos + 16)) ELSE 0 - 1

\* CloudInventory._read_asa_object_header
_read_asa_object_header(d, pos, obj_id, version) ==
    Then(read_guid(d, pos), LAMBDA guid :
    Then(read_string(d, guid.pos), LAMBDA class_name :
    Then(read_int32(d, class_name.pos), LAMBDA field1 :
    Then(read_int32(d, field1.pos), LAMBDA field2 :
    Then(read_string(d, field2.pos), LAMBDA instance_name :
    Then(skip(d, instance_name.pos, IF version >= OffByOneVersion THEN 21 ELSE 20),
         LAMBDA pad :
    R("ok", <<GameObject(obj_id, UuidText(guid.val), class_name.val, FALSE,
                         IF instance_name.val # <<>> THEN <<instance_name.val>> ELSE <<>>,
                         <<>>, pad.pos, StoredInPadding(d, instance_name.pos))>>,
      pad.pos)))))))

\* [self._read_ase_name_from_table(reader) for _ in range(n)]
RECURSIVE ReadAseNames(_, _, _, _, _)
ReadAseNames(d, pos, nt, n, acc) ==
    IF n <= 0 THEN R("ok", acc, pos)
    ELSE Then(_read_ase_name_from_table(d, pos, nt), LAMBDA s :
         ReadAseNames(d, s.pos, nt, n - 1, Append(acc, s.val)))

\* WorldSave._read_ase_object_header
_read_ase_object_header(d, pos, obj_id, version, nt) ==
    LET tabled == version > 5 /\ nt.kind = "list" /\ TableTruthy(nt) IN
    Then(read_guid(d, pos), LAMBDA guid :
    Then(IF tabled THEN _read_ase_name_from_table(d, guid.pos, nt)
         ELSE read_string(d, guid.pos), LAMBDA class_name :
    Then(read_uint32(d, class_name.pos), LAMBDA is_item :
    Then(read_int32(d, is_item.pos), LAMBDA name_count :
    Then(IF tabled THEN ReadAseNames(d, name_count.pos, nt, name_count.val[1], <<>>)
         ELSE ReadStrings(d, name_count.pos, name_count.val[1], <<>>), LAMBDA names :
    Then(read_uint32(d, names.pos), LAMBDA from_data_file :
    Then(read_int32(d, from_data_file.pos), LAMBDA data_file_index :
    Then(read_uint32(d, data_file_index.pos), LAMBDA has_location :
    Then(IF ~AllZero(has_location.val)
         THEN LocationData_read(d, has_location.pos, FALSE)
         ELSE R("ok", <<>>, has_location.pos), LAMBDA location :
    Then(read_int32(d, location.pos), LAMBDA properties_offset :
    Then(read_int32(d, properties_offset.pos), LAMBDA unknown :
    R("ok", <<GameObject(obj_id, GuidOrEmpty(guid.val), class_name.val,
                         ~AllZero(is_item.val), names.val,
                         IF AllZero(has_location.val) THEN <<>> ELSE <<location.val>>,
                         properties_offset.val[1], properties_offset.val[1])>>,
      unknown.pos))))))))))))


-----------------------------------------------------------------------------
(* File headers (files/base.py, files/cloud_inventory.py,                  *)
(* files/world_save.py).                                                    *)

\* VALID_VERSIONS of Profile and Tribe, and of CloudInventory.
VALID_VERSIONS(kind) == IF kind = "cloud" THEN 1..7 ELSE {1, 5, 6, 7}

\* The largest object count a file may declare.
MaxObjectCount == 1000000

\* ArkFile._parse and CloudInventory._parse up to the object count:
\* val = <<[version, is_asa, object_count]>>.
ParseFileHeader(d, pos, kind) ==
    Then(read_int32(d, pos), LAMBDA version :
    IF version.val[1] \notin VALID_VERSIONS(kind)
    THEN R("ArkParseError", <<>>, version.pos)
    ELSE
    Then(_detect_asa(d, version.pos, version.val[1]), LAMBDA is_asa :
    Then(IF is_asa.val[1] /\ version.val[1] >= OffByOneVersion
         THEN Then(read_int32(d, is_asa.pos), LAMBDA unknown1 : read_int32(d, unknown1.pos))
         ELSE R("ok", <<>>, is_asa.pos), LAMBDA extra :
    Then(read_int32(d, extra.pos), LAMBDA object_count :
    IF object_count.val[1] < 0 \/ object_count.val[1] > MaxObjectCount
    THEN R("ArkParseError", <<>>, object_count.pos)
    ELSE R("ok", <<[version |-> version.val[1], is_asa |-> is_asa.val[1],
                    object_count |-> object_count.val[1]]>>, object_count.pos)))))

\* VALID_ASE_VERSIONS
VALID_ASE_VERSIONS == 5..12

\* n pairs of int64.
RECURSIVE ReadInt64Pairs(_, _, _)
ReadInt64Pairs(d, pos, n) ==
    IF n = 0 THEN R("ok", <<>>, pos)
    ELSE Then(read_int64(d, pos), LAMBDA offset :
         Then(read_int64(d, offset.pos), LAMBDA size :
         ReadInt64Pairs(d, size.pos, n - 1)))

\* WorldSave._read_ase_header:
\* val = <<[version, name_table_offset, properties_block_offset]>>.
_read_ase_header(d, pos) ==
    Then(read_int16(d, pos), LAMBDA version :
    IF version.val[1] \notin VALID_ASE_VERSIONS
    THEN R("ArkParseError", <<>>, version.pos)
    ELSE
    Then(IF version.val[1] > 10 THEN ReadInt64Pairs(d, version.pos, 4)
         ELSE R("ok", <<>>, version.pos), LAMBDA stored :
    Then(IF version.val[1] > 6
         THEN Then(read_int32(d, stored.pos), LAMBDA hibernation_offset :
                   read_int32(d, hibernation_offset.pos))
         ELSE R("ok", <<>>, stored.pos), LAMBDA hibernation :
    Then(IF version.val[1] > 5
         THEN Then(read_int32(d, hibernation.pos), LAMBDA name_table_offset :
              Then(read_int32(d, name_table_offset.pos), LAMBDA properties_block_offset :
              R("ok", <<name_table_offset.val[1], properties_block_offset.val[1]>>,
                properties_block_offset.pos)))
         ELSE R("ok", <<0, 0>>, hibernation.pos), LAMBDA offsets :
    Then(read_float(d, offsets.pos), LAMBDA game_time :
    Then(IF version.val[1] > 8 THEN read_int32(d, game_time.pos)
         ELSE R("ok", <<>>, game_time.pos), LAMBDA save_count :
    R("ok", <<[version |-> version.val[1], name_table_offset |-> offsets.val[1],
               properties_block_offset |-> offsets.val[2]]>>, save_count.pos)))))))

\* WorldSave._read_ase_name_table: val = <<the table>>, position restored.
_read_ase_name_table(d, pos, name_table_offset) ==
    IF name_table_offset = 0 THEN R("ok", <<[kind |-> "list", names |-> <<>>]>>, pos)
    ELSE IF name_table_offset < 0 THEN R("ValueError", <<>>, pos)
    ELSE
    Then(read_int32(d, name_table_offset), LAMBDA count :
    Then(ReadStrings(d, count.pos, count.val[1], <<>>), LAMBDA names :
    R("ok", <<[kind |-> "list", names |-> names.val]>>, pos)))

\* WorldSave._read_ase_data_files
_read_ase_data_files(d, pos) ==
    Then(read_int32(d, pos), LAMBDA count : ReadStrings(d, count.pos, count.val[1], <<>>))

\* EmbeddedData.read: the blobs of one part, the parts of one entry, an entry.
RECURSIVE ReadBlobs(_, _, _)
ReadBlobs(d, pos, n) ==
    IF n <= 0 THEN R("ok", <<>>, pos)
    ELSE Then(read_int32(d, pos), LAMBDA blob_size :
         Then(read_bytes(d, blob_size.pos, blob_size.val[1] * 4), LAMBDA blob_bytes :
         ReadBlobs(d, blob_bytes.pos, n - 1)))

RECURSIVE ReadParts(_, _, _)
ReadParts(d, pos, n) ==
    IF n <= 0 THEN R("ok", <<>>, pos)
    ELSE Then(read_int32(d, pos), LAMBDA blob_count :
         Then(ReadBlobs(d, blob_count.pos, blob_count.val[1]), LAMBDA blobs :
         ReadParts(d, blobs.pos, n - 1)))

EmbeddedData_read(d, pos) ==
    Then(read_string(d, pos), LAMBDA path :
    Then(read_int32(d, path.pos), LAMBDA part_count :
    ReadParts(d, part_count.pos, part_count.val[1])))

RECURSIVE ReadEmbedded(_, _, _)
ReadEmbedded(d, pos, n) ==
    IF n <= 0 THEN R("ok", <<>>, pos)
    ELSE Then(EmbeddedData_read(d, pos), LAMBDA e : ReadEmbedded(d, e.pos, n - 1))

\* WorldSave._read_ase_embedded_data
_read_ase_embedded_data(d, pos) ==
    Then(read_int32(d, pos), LAMBDA count : ReadEmbedded(d, count.pos, count.val[1]))

RECURSIVE ReadObjectMap(_, _, _)
ReadObjectMap(d, pos, n) ==
    IF n <= 0 THEN R("ok", <<>>, pos)
    ELSE Then(read_int32(d, pos), LAMBDA level :
         Then(read_int32(d, level.pos), LAMBDA name_count :
         Then(ReadStrings(d, name_count.pos, name_count.val[1], <<>>), LAMBDA names :
         ReadObjectMap(d, names.pos, n - 1))))

\* WorldSave._read_ase_data_files_object_map
_read_ase_data_files_object_map(d, pos) ==
    Then(read_int32(d, pos), LAMBDA count : ReadObjectMap(d, count.pos, count.val[1]))

\* WorldSave._parse_ase up to the object count of _read_ase_objects:
\* val = <<[version, name_table_offset, properties_block_offset, name_table,
\* object_count]>>.  name_table starts as the empty list of the dataclass.
ParseAseHeader(d, pos) ==
    Then(_read_ase_header(d, pos), LAMBDA header :
    Then(IF header.val[1].version > 5 /\ header.val[1].name_table_offset > 0
         THEN _read_ase_name_table(d, header.pos, header.val[1].name_table_offset)
         ELSE R("ok", <<[kind |-> "list", names |-> <<>>]>>, header.pos), LAMBDA table :
    Then(_read_ase_data_files(d, table.pos), LAMBDA data_files :
    Then(_read_ase_embedded_data(d, data_files.pos), LAMBDA embedded_data :
    Then(_read_ase_data_files_object_map(d, embedded_data.pos), LAMBDA object_map :
    Then(read_int32(d, object_map.pos), LAMBDA count :
    R("ok", <<[version |-> header.val[1].version,
               name_table_offset |-> header.val[1].name_table_offset,
               properties_block_offset |-> header.val[1].properties_block_offset,
               name_table |-> table.val[1],
               object_count |-> count.val[1]]>>, count.pos)))))))


-----------------------------------------------------------------------------
(* Files to load: the layouts the loaders above decode, written out.       *)

\* Most objects in a file, and the bytes left between two property blocks.
MaxObjects == 2
MaxGap == 2

\* The framing of the property blocks of a file.
FileFraming(kind, version, modern) ==
    IF kind = "world"
    THEN [is_asa |-> FALSE, worldsave_format |-> FALSE,
          table |-> IF version > 5 THEN PropsListTable ELSE NoTable]
    ELSE [is_asa |-> IF kind = "cloud" THEN version >= OffByOneVersion ELSE modern,
          worldsave_format |-> FALSE, table |-> NoTable]

\* A GUID that is not all zeros.
SomeGuid(i) == <<i>> \o Zeros(14) \o <<9>>

EncStrings(f, names) ==
    IF names = <<>> THEN <<>> ELSE EncName(f, names[1]) \o
       (IF Len(names) > 1 THEN EncName(f, names[2]) ELSE <<>>)

\* A Legacy object header (GameObject.read_header, _read_ase_object_header).
EncLegacyHeader(f, i, o, offset) ==
    Zeros(16) \o EncName(f, <<65, 98>>) \o EncI32(0)
      \o EncI32(Len(o.names)) \o EncStrings(f, o.names)
      \o EncI32(0) \o EncI32(0)
      \o (IF o.loc THEN EncI32(1) \o [k \in 1..24 |-> k] ELSE EncI32(0))
      \o EncI32(offset) \o EncI32(0)

\* A Modern profile or tribe header (ArkFile._read_object_header); the zero
\* byte after the last header of a version 7 file.
EncModernHeader(i, o, offset, closing) ==
    SomeGuid(i) \o EncString(<<65, 98>>) \o EncI32(0)
      \o EncI32(Len(o.names)) \o EncStrings([table |-> NoTable], o.names)
      \o Zeros(12) \o EncI32(offset) \o Zeros(4) \o (IF closing THEN <<0>> ELSE <<>>)

\* A Modern cloud header (CloudInventory._read_asa_object_header).
EncCloudHeader(i, o, offset, version) ==
    SomeGuid(i) \o EncString(<<65, 98>>) \o EncI32(0) \o EncI32(0)
      \o EncString(IF o.names = <<>> THEN <<>> ELSE o.names[1])
      \o Zeros(12) \o EncI32(offset) \o Zeros(4)
      \o (IF version >= OffByOneVersion THEN <<0>> ELSE <<>>)

\* What the offset field of a header holds for a block that starts at start.
StoredFor(kind, version, modern, block, start) ==
    IF modern /\ version >= OffByOneVersion THEN start - 1 ELSE start - block

EncHeader(kind, version, modern, f, i, n, o, offset) ==
    IF ~modern THEN EncLegacyHeader(f, i, o, offset)
    ELSE IF kind = "cloud" THEN EncCloudHeader(i, o, offset, version)
    ELSE EncModernHeader(i, o, offset, version >= OffByOneVersion /\ i = n)

\* The bytes before the first object header.  A world save names the
\* offsets of its name table and of its properties block.
EncPrefix(kind, version, modern, n, name_table_offset, block) ==
    IF kind = "world"
    THEN EncI16(version)
           \o (IF version > 10 THEN Zeros(64) ELSE <<>>)
           \o (IF version > 6 THEN Zeros(8) ELSE <<>>)
           \o (IF version > 5 THEN EncI32(name_table_offset) \o EncI32(block) ELSE <<>>)
           \o <<0, 0, 128, 63>>
           \o (IF version > 8 THEN EncI32(3) ELSE <<>>)
           \o EncI32(1) \o EncString(<<102>>)
           \o EncI32(1) \o (EncString(<<101>>) \o EncI32(1) \o EncI32(1) \o EncI32(1) \o <<1, 2, 3, 4>>)
           \o EncI32(1) \o (EncI32(0) \o EncI32(1) \o EncString(<<109>>))
           \o EncI32(n)
    ELSE EncI32(version)
           \o (IF modern /\ version >= OffByOneVersion THEN EncI32(0) \o EncI32(0) ELSE <<>>)
           \o EncI32(n)

\* The names of a list table, as _read_ase_name_table reads them.
RECURSIVE EncTable(_)
EncTable(names) ==
    IF names = <<>> THEN <<>> ELSE EncString(Head(names)) \o EncTable(Tail(names))

\* The length a damaged string declares: more than any file holds.
OverLen == 2000

\* An object whose block ends with a string that declares OverLen bytes.
Overlong(o) == "over" \in DOMAIN o /\ o.over

\* A StrProperty whose string declares OverLen bytes and holds three.
EncOverlong(f) ==
    EncName(f, <<65, 98>>) \o EncName(f, <<83, 116, 114, 80, 114, 111, 112, 101, 114, 116, 121>>)
      \o (IF f.worldsave_format THEN <<>> ELSE EncI32(Len(EncIndex(f, <<83, 116, 114, 80, 114, 111, 112, 101, 114, 116, 121>>, 0, 7)) + 7) \o EncI32(0))
      \o EncIndex(f, <<83, 116, 114, 80, 114, 111, 112, 101, 114, 116, 121>>, 0, 7) \o EncI32(OverLen) \o <<104, 105, 0>>

\* One property block: the list, its sentinel, and the gap after it.  A
\* block can be damaged: a property of a type that is not registered, or a
\* string longer than the file.
EncBlock(f, o, gap) ==
    EncList(f, o.props)
      \o (IF Overlong(o) THEN EncOverlong(f) ELSE <<>>)
      \o (IF o.bad THEN EncProperty(f, [type |-> <<88, 120, 80, 114, 111, 112, 101, 114, 116, 121>>, name |-> <<65, 98>>, arr |-> 0])
          ELSE <<>>)
      \o Sentinel(f) \o [k \in 1..gap |-> 7]


RECURSIVE Concat(_)
Concat(seqs) == IF seqs = <<>> THEN <<>> ELSE Head(seqs) \o Concat(Tail(seqs))

\* A world save from version 6 keeps a name table and a properties block
\* offset.
Tabled(kind, version) == kind = "world" /\ version > 5

\* The property blocks of the objects.
Blocks(kind, version, modern, os, gap) ==
    [i \in 1..Len(os) |-> EncBlock(FileFraming(kind, version, modern), os[i], gap)]

\* The object headers, the i-th with the offset stored[i].
Headers(kind, version, modern, os, stored) ==
    [i \in 1..Len(os) |->
        EncHeader(kind, version, modern, FileFraming(kind, version, modern),
                  i, Len(os), os[i], stored[i])]

\* Where each block starts when the blocks follow the headers one after
\* another.
Starts(base, blocks) ==
    [i \in 1..Len(blocks) |-> base + Len(Concat(SubSeq(blocks, 1, i - 1)))]

\* The offset each header stores: that of its block, that of the first
\* block ("same"), or nothing ("blank").
Stored(kind, version, modern, skew, base, start) ==
    [i \in 1..Len(start) |->
        IF skew = "blank" THEN 0
        ELSE StoredFor(kind, version, modern,
                       IF Tabled(kind, version) THEN base ELSE 0,
                       IF skew = "same" THEN start[1] ELSE start[i])]

\* The file and what is known of it: where each block starts and ends,
\* whether the headers point at their blocks, which blocks are undamaged.
Written(os, gap, skew, cut, blocks, base, start, whole) ==
    [bytes |-> IF cut > 0 THEN Slice(whole, 0, base - cut) ELSE whole,
     starts |-> start,
     ends |-> [i \in 1..Len(os) |-> start[i] + Len(blocks[i]) - gap],
     exact |-> skew \in {"exact", "blank"} /\ cut = 0,
     sound |-> [i \in 1..Len(os) |-> ~os[i].bad /\ ~Overlong(os[i])]]

\* Prefix, headers, blocks, and the name table of a world save.
Laid(kind, version, modern, os, gap, skew, cut, blocks, base, start) ==
    Written(os, gap, skew, cut, blocks, base, start,
            EncPrefix(kind, version, modern, Len(os), base + Len(Concat(blocks)),
                      IF Tabled(kind, version) THEN base ELSE 0)
              \o Concat(Headers(kind, version, modern, os,
                                Stored(kind, version, modern, skew, base, start)))
              \o Concat(blocks)
              \o (IF Tabled(kind, version)
                  THEN EncI32(Len(AllNames)) \o EncTable(AllNames) ELSE <<>>))

Placed(kind, version, modern, os, gap, skew, cut, blocks, base) ==
    Laid(kind, version, modern, os, gap, skew, cut, blocks, base, Starts(base, blocks))

\* A file of the given kind holding the objects os: gap bytes after each
\* block, the offsets of the headers skewed or not, the last cut bytes of
\* the headers missing or not.  The blocks start where the headers end.
MakeFile(kind, version, modern, os, gap, skew, cut) ==
    Placed(kind, version, modern, os, gap, skew, cut,
           Blocks(kind, version, modern, os, gap),
           Len(EncPrefix(kind, version, modern, Len(os), 0, 0))
             + Len(Concat(Headers(kind, version, modern, os, [i \in 1..Len(os) |-> 0]))))

\* The objects written: with or without a name (and a location), with or
\* without a property, with or without a damaged block.
ObjectSpecimens ==
    { [names |-> ns, loc |-> ns # <<>>, props |-> ps, bad |-> b] :
        ns \in {<<>>, <<<<67, 100>>>>},
        ps \in {<<>>, <<[type |-> <<73, 110, 116, 80, 114, 111, 112, 101, 114, 116, 121>>, name |-> <<65, 98>>, arr |-> 0]>>},
        b \in BOOLEAN }

RECURSIVE ObjectLists(_)
ObjectLists(n) ==
    IF n = 0 THEN {<<>>}
    ELSE ObjectLists(n - 1)
           \cup { <<o>> \o l : o \in ObjectSpecimens,
                               l \in { x \in ObjectLists(n - 1) : Len(x) = n - 1 } }

\* Kind, version, Modern or Legacy layout.
FileKinds ==
    {<<"profile", 1, FALSE>>, <<"profile", 6, FALSE>>, <<"profile", 6, TRUE>>,
     <<"profile", 7, TRUE>>, <<"tribe", 1, FALSE>>, <<"tribe", 7, TRUE>>,
     <<"cloud", 1, FALSE>>, <<"cloud", 6, TRUE>>, <<"cloud", 7, TRUE>>,
     <<"world", 5, FALSE>>, <<"world", 6, FALSE>>, <<"world", 11, FALSE>>}


-----------------------------------------------------------------------------
(* Loading a file: ArkFile._parse (Profile, Tribe), CloudInventory._parse,  *)
(* WorldSave._parse_ase, GameObject.load_properties.                        *)

LoadFileInit ==
    \E k \in FileKinds, os \in ObjectLists(MaxObjects), gap \in {0, MaxGap},
       skew \in {"exact", "same", "blank"}, cut \in {0, 3} :
        /\ skew = "same" => Len(os) = 2 /\ cut = 0
        /\ skew = "blank" => k[1] = "cloud" /\ k[3] /\ cut = 0
        /\ cut > 0 => os # <<>> /\ gap = 0
        /\ \E m \in {MakeFile(k[1], k[2], k[3], os, gap, skew, cut)} :
             /\ data = m.bytes
             /\ load = [NoLoad EXCEPT !.kind = k[1], !.pc = "header",
                                      !.made = [starts |-> m.starts, ends |-> m.ends,
                                                exact |-> m.exact, sound |-> m.sound]]
        /\ position = 0
        /\ last = [op |-> "load", arg |-> 0, pos0 |-> 0, st |-> "ok", val |-> <<>>]
        /\ source = NoSource
        /\ name_table = NoTable
        /\ properties = <<>>
        /\ framing = NoFraming
        /\ written = NothingWritten

\* The exception st leaves load(): nothing is returned.
\* (at notes the step that was under way.)
Raised(st) == [load EXCEPT !.pc = "done", !.result = st, !.at = load.pc]

\* version, the Legacy or Modern layout, the object count; for a world save
\* its offsets and name table too.
ParseHeader ==
    /\ load.pc = "header"
    /\ \E r \in {IF load.kind = "world" THEN ParseAseHeader(data, position)
                 ELSE ParseFileHeader(data, position, load.kind)} :
        /\ position' = r.pos
        /\ load' = IF r.st # "ok" THEN Raised(r.st)
                   ELSE IF load.kind = "world"
                   THEN [load EXCEPT !.pc = "objects", !.version = r.val[1].version,
                                     !.count = r.val[1].object_count,
                                     !.name_table_offset = r.val[1].name_table_offset,
                                     !.properties_block_offset =
                                         r.val[1].properties_block_offset,
                                     !.table = r.val[1].name_table]
                   ELSE [load EXCEPT !.pc = "objects", !.version = r.val[1].version,
                                     !.count = r.val[1].object_count,
                                     !.is_asa = r.val[1].is_asa]
    /\ UNCHANGED <<data, last, source, name_table, properties, framing, written>>

\* One turn of the loop over range(object_count): a header is read (and the
\* position the reader is left at is noted in header_ends).
ReadObjectHeader ==
    /\ load.pc = "objects"
    /\ Len(load.objects) < load.count
    /\ \E r \in {CASE load.kind = "world" ->
                        _read_ase_object_header(data, position, Len(load.objects),
                                                load.version, load.table)
                   [] load.kind = "cloud" ->
                        IF load.is_asa
                        THEN _read_asa_object_header(data, position, Len(load.objects),
                                                     load.version)
                        ELSE GameObject_read_header(data, position, Len(load.objects), FALSE)
                   [] OTHER ->
                        _read_object_header(data, position, Len(load.objects),
                                            load.is_asa, load.version)} :
        /\ position' = r.pos
        /\ load' = IF r.st # "ok" THEN Raised(r.st)
                   ELSE [load EXCEPT !.objects = Append(@, r.val[1]),
                                     !.header_ends = Append(@, r.pos)]
    /\ UNCHANGED <<data, last, source, name_table, properties, framing, written>>

\* All headers are read: the loop over the objects' properties starts.
HeadersDone ==
    /\ load.pc = "objects"
    /\ Len(load.objects) >= load.count
    /\ load' = [load EXCEPT !.pc = "properties", !.i = 1]
    /\ UNCHANGED <<data, position, last, source, name_table, properties, framing, written>>

\* load_properties raised for object i: fatal in a profile, tribe or cloud
\* file; in a world save the failure is counted and the loop goes on.
Failed(l, st) ==
    IF l.kind = "world"
    THEN [l EXCEPT !.pc = "properties", !.i = @ + 1, !.failures = @ + 1,
                   !.failed = Append(@, [id |-> l.objects[l.i].id, st |-> st])]
    ELSE [l EXCEPT !.pc = "done", !.result = st, !.at = l.pc]

\* GameObject.load_properties, up to the call of read_properties.
SeekProperties ==
    /\ load.pc = "properties"
    /\ load.i <= Len(load.objects)
    /\ LET offset == load.properties_block_offset + load.objects[load.i].properties_offset
       IN IF offset < 0
          THEN /\ load' = Failed(load, "ValueError")
               /\ UNCHANGED <<position, last, name_table, properties, framing>>
          ELSE /\ position' = offset
               /\ properties' = <<>>
               /\ framing' = [is_asa |-> CASE load.kind = "world" -> FALSE
                                           [] load.kind = "cloud" ->
                                                load.version >= OffByOneVersion
                                           [] OTHER -> load.is_asa,
                              worldsave_format |-> FALSE]
               /\ name_table' = IF load.kind = "world" /\ load.version > 5
                                THEN load.table ELSE NoTable
               /\ last' = [op |-> "new", arg |-> 0, pos0 |-> offset, st |-> "ok",
                           val |-> <<>>]
               /\ load' = [load EXCEPT !.pc = "reading",
                                       !.objects[load.i].start = offset]
    /\ UNCHANGED <<data, source, written>>

\* GameObject.load_properties, after read_properties: the properties are
\* kept, and the bytes up to the next object's offset become extra_data.
FinishProperties ==
    /\ load.pc = "reading"
    /\ last.op = "read_properties"
    /\ last' = [last EXCEPT !.op = "load_properties"]
    /\ IF last.st # "ok"
       THEN /\ load' = Failed(load, last.st)
            /\ UNCHANGED position
       ELSE LET kept == [load EXCEPT !.objects[load.i].properties = last.val,
                                     !.objects[load.i].end = position,
                                     !.objects[load.i].loaded = TRUE]
                remains == IF load.i < Len(load.objects)
                           THEN load.properties_block_offset
                                  + load.objects[load.i + 1].properties_offset - position
                           ELSE 0
            IN IF remains > 0
               THEN \E extra \in {read_bytes(data, position, remains)} :
                       /\ position' = extra.pos
                       /\ load' = IF extra.st # "ok" THEN Failed(kept, extra.st)
                                  ELSE [kept EXCEPT !.pc = "properties", !.i = @ + 1,
                                            !.objects[load.i].extra_data = <<extra.val>>]
               ELSE /\ load' = [kept EXCEPT !.pc = "properties", !.i = @ + 1]
                    /\ UNCHANGED position
    /\ UNCHANGED <<data, source, name_table, properties, framing, written>>

\* The container shares its object list with the file.
Linked(l, c) == [l EXCEPT !.objects = c.objects, !.container = <<c>>]

\* Every object is done: load() returns the file object.
LoadReturn ==
    /\ \/ load.pc = "properties" /\ load.i > Len(load.objects)
       \/ load.pc = "asa_rows" /\ load.i > Len(load.rows)
    /\ load' = IF load.kind = "asa"
               THEN [load EXCEPT !.pc = "done", !.result = "file", !.conn = "closed"]
               ELSE Linked([load EXCEPT !.pc = "done", !.result = "file"],
                           build_relationships(GameObjectContainer(load.objects)))
    /\ UNCHANGED <<data, position, last, source, name_table, properties, framing, written>>

-----------------------------------------------------------------------------
(* Modern world saves: the SQLite tables custom and game                   *)
(* (files/world_save.py, _parse_asa and what it calls).                     *)

\* raw.rsplit(".", 1)[-1] if "." in raw else raw: what follows the last dot.
RECURSIVE AfterLastDot(_)
AfterLastDot(raw) ==
    IF \A i \in 1..Len(raw) : raw[i] # 46 THEN raw
    ELSE AfterLastDot(Tail(raw))

\* The (string, int32) entries of the data files list.
RECURSIVE ReadAsaDataFiles(_, _, _)
ReadAsaDataFiles(d, pos, n) ==
    IF n <= 0 THEN R("ok", <<>>, pos)
    ELSE Then(read_string(d, pos), LAMBDA name :
         Then(read_int32(d, name.pos), LAMBDA term :
         ReadAsaDataFiles(d, term.pos, n - 1)))

\* nt[idx] = ...: the dict with one more entry (a key met again is replaced).
DictSet(names, idx, name) ==
    [k \in DOMAIN names \cup {idx} |-> IF k = idx THEN name ELSE names[k]]

\* The (int32, string) entries of the name table: val = <<the dict>>.
RECURSIVE ReadNameEntries(_, _, _, _)
ReadNameEntries(d, pos, n, names) ==
    IF n <= 0 THEN R("ok", <<[kind |-> "dict", names |-> names]>>, pos)
    ELSE Then(read_int32(d, pos), LAMBDA idx :
         Then(read_string(d, idx.pos), LAMBDA raw :
         ReadNameEntries(d, raw.pos, n - 1, DictSet(names, idx.val[1], AfterLastDot(raw.val)))))

\* WorldSave._read_asa_header on the SaveHeader blob: the version, three
\* int32 (legacy offset, unknown, actual offset), the game time, an unknown
\* int32 and the count of data files, the data files, two int32 of padding
\* and the count of names, the names.  val = <<[version, name_table]>>.
_read_asa_header(d, pos) ==
    Then(read_int16(d, pos), LAMBDA version :
    Then(ReadInt32s(d, version.pos, 3, <<>>), LAMBDA offsets :
    Then(read_double(d, offsets.pos), LAMBDA game_time :
    Then(ReadInt32s(d, game_time.pos, 2, <<>>), LAMBDA count :
    Then(ReadAsaDataFiles(d, count.pos, count.val[2]), LAMBDA data_files :
    Then(ReadInt32s(d, data_files.pos, 3, <<>>), LAMBDA name_count :
    Then(ReadNameEntries(d, name_count.pos, name_count.val[3], <<>>), LAMBDA nt :
    R("ok", <<[version |-> version.val[1], name_table |-> nt.val[1]]>>, nt.pos))))))))

\* WorldSave._read_asa_actor_locations on the ActorTransforms blob: val is
\* the list of (guid text, location) pairs met, in order.
RECURSIVE _read_asa_actor_locations(_, _, _)
_read_asa_actor_locations(d, pos, acc) ==
    IF remaining(d, pos) < 16 THEN R("ok", acc, pos)
    ELSE Then(read_bytes(d, pos, 16), LAMBDA guid_bytes :
         IF AllZero(guid_bytes.val) THEN R("ok", acc, guid_bytes.pos)
         ELSE Then(ReadFloats(d, guid_bytes.pos, 6, 8, <<>>), LAMBDA xyz :
              Then(skip(d, xyz.pos, 8), LAMBDA tail :
              _read_asa_actor_locations(d, tail.pos,
                  Append(acc, [guid |-> GuidText(guid_bytes.val), location |-> xyz.val])))))

LocationOf_mut(locations, guid_str) ==
    LET hits == {k \in 1..Len(locations) : locations[k].guid = guid_str} IN
    IF hits = {} THEN <<>>
    ELSE <<locations[CHOOSE k \in hits : \A j \in hits : k <= j].location>>

\* self.actor_locations[guid_str] when the key is there: the entry set last.
LocationOf(locations, guid_str) ==
    LET hits == {k \in 1..Len(locations) : locations[k].guid = guid_str} IN
    IF hits = {} THEN <<>>
    ELSE <<locations[CHOOSE k \in hits : \A j \in hits : j <= k].location>>

\* WorldSave._parse_asa_game_object up to the call of read_properties:
\* val = <<the object, whether its properties are to be read>>.
_parse_asa_game_object(d, pos, guid_str, obj_id, nt) ==
    Then(read_int32(d, pos), LAMBDA class_idx :
    Then(read_int32(d, class_idx.pos), LAMBDA class_inst :
    Then(read_int32(d, class_inst.pos), LAMBDA zeros :
    Then(read_int32(d, zeros.pos), LAMBDA name_count :
    Then(ReadStrings(d, name_count.pos, name_count.val[1], <<>>), LAMBDA names :
    Then(read_int32(d, names.pos), LAMBDA end_marker :
    LET class_name ==
            TableGet(nt, class_idx.val[1],
                     <<95, 95, 85, 78, 75, 78, 79, 87, 78, 95, 67, 76, 65, 83, 83, 95>> \o IntText(class_idx.val[1]) \o <<95, 95>>)
    IN
    IF remaining(d, end_marker.pos) < 2
    THEN R("ok", <<GameObject(obj_id, guid_str, class_name, FALSE, names.val, <<>>,
                              end_marker.pos, end_marker.pos), FALSE>>, end_marker.pos)
    ELSE Then(read_uint16(d, end_marker.pos), LAMBDA is_item :
         R("ok", <<GameObject(obj_id, guid_str, class_name, is_item.val[1] = 1,
                              names.val, <<>>, is_item.pos, is_item.pos), TRUE>>,
           is_item.pos))))))))

\* The SaveHeader blob: names are kept by key, some with a package path
\* before a dot.
RECURSIVE EncNameEntries(_)
EncNameEntries(i) ==
    IF i > Len(AllNames) THEN <<>>
    ELSE EncI32(KeyOf(i))
           \o EncString((IF i % 2 = 0 THEN <<47, 112, 46, 113, 46>> ELSE <<>>) \o AllNames[i])
           \o EncNameEntries(i + 1)

EncSaveHeader ==
    EncI16(14) \o EncI32(0) \o EncI32(0) \o EncI32(0) \o Zeros(8) \o EncI32(0)
      \o EncI32(1) \o EncString(<<102>>) \o EncI32(0)
      \o EncI32(0) \o EncI32(0)
      \o EncI32(Len(AllNames)) \o EncNameEntries(1)

\* The ActorTransforms blob: one actor, then the all-zero GUID.
EncTransforms == SomeGuid(1) \o [k \in 1..48 |-> k] \o Zeros(8) \o Zeros(16)

WorldFraming == [is_asa |-> TRUE, worldsave_format |-> TRUE, table |-> PropsDictTable]

\* The value of a row of the game table.  shape: "whole"; "flagless" (ends
\* after the names); "short" (ends inside the first words); "torn" (ends
\* inside the first name).
EncAsaObject(o) ==
    LET head == EncI32(KeyOf(NameNo(<<65, 98>>))) \o EncI32(0) \o EncI32(0)
                  \o EncI32(Len(o.names)) \o EncStrings([table |-> NoTable], o.names)
                  \o EncI32(0)
    IN CASE o.shape = "short" -> Slice(head, 0, 6)
         [] o.shape = "torn" -> Slice(head, 0, 21)
         [] o.shape = "flagless" -> head
         [] OTHER -> head \o EncI16(1) \o EncBlock(WorldFraming, o, 0)

\* A row: its key (16 bytes, or one short of that) and its value.
RowSpecimens ==
    { [key |-> IF long THEN SomeGuid(g) ELSE Slice(SomeGuid(g), 0, 15),
       names |-> <<<<67, 100>>>>, props |-> ps, bad |-> b, shape |-> sh] :
        long \in BOOLEAN, g \in {1},
        ps \in {<<[type |-> <<73, 110, 116, 80, 114, 111, 112, 101, 114, 116, 121>>, name |-> <<65, 98>>, arr |-> 0]>>},
        b \in BOOLEAN, sh \in {"whole", "flagless", "short"} }

RECURSIVE RowLists(_)
RowLists(n) ==
    IF n = 0 THEN {<<>>}
    ELSE RowLists(n - 1)
           \cup { <<o>> \o l : o \in RowSpecimens,
                               l \in { x \in RowLists(n - 1) : Len(x) = n - 1 } }

\* A Modern world save: the SaveHeader and ActorTransforms rows of the
\* custom table (either can be missing), and the rows of the game table.
LoadDbInit ==
    \E rs \in RowLists(MaxObjects), header \in {<<>>, <<EncSaveHeader>>},
       transforms \in {<<>>, <<EncTransforms>>, <<DropLast(EncTransforms, 30)>>} :
        /\ header = <<>> => rs = <<>> /\ transforms = <<>>
        /\ data = <<>>
        /\ position = 0
        /\ load = [NoLoad EXCEPT
                     !.kind = "asa", !.pc = "asa_header", !.is_asa = TRUE,
                     !.db = [header |-> header, transforms |-> transforms],
                     !.rows = [i \in 1..Len(rs) |->
                                 [key |-> rs[i].key, value |-> EncAsaObject(rs[i])]],
                     !.made = [starts |-> <<>>, ends |-> <<>>, exact |-> TRUE,
                               sound |-> [i \in 1..Len(rs) |->
                                            rs[i].shape = "flagless"
                                            \/ (rs[i].shape = "whole" /\ ~rs[i].bad)]]]
        /\ last = [op |-> "load", arg |-> 0, pos0 |-> 0, st |-> "ok", val |-> <<>>]
        /\ source = NoSource
        /\ name_table = NoTable
        /\ properties = <<>>
        /\ framing = NoFraming
        /\ written = NothingWritten

LoadInit == LoadFileInit \/ LoadDbInit

\* What the database makes of the queries: "ok"; "no_custom" (the first
\* query raises sqlite3.Error, which _parse_asa turns into ArkParseError);
\* "no_game" (the query over the game table does).
SqliteState(db) == IF "sqlite" \in DOMAIN db THEN db.sqlite ELSE "ok"

\* WorldSave._read_asa_header: the SaveHeader row is fetched and read.
ParseAsaHeader ==
    /\ load.pc = "asa_header"
    /\ IF SqliteState(load.db) = "no_custom" \/ load.db.header = <<>>
       THEN /\ load' = [Raised("ArkParseError") EXCEPT !.conn = "open"]
            /\ UNCHANGED <<data, position>>
       ELSE \E r \in {_read_asa_header(load.db.header[1], 0)} :
               /\ data' = load.db.header[1]
               /\ position' = r.pos
               /\ load' = IF r.st # "ok" THEN [Raised(r.st) EXCEPT !.conn = "open"]
                          ELSE [load EXCEPT !.pc = "asa_locations", !.conn = "open",
                                            !.version = r.val[1].version,
                                            !.table = r.val[1].name_table]
    /\ UNCHANGED <<last, source, name_table, properties, framing, written>>

\* WorldSave._read_asa_actor_locations: the ActorTransforms row, if there is
\* one, is read.
ReadAsaActorLocations ==
    /\ load.pc = "asa_locations"
    /\ IF load.db.transforms = <<>>
       THEN /\ load' = IF SqliteState(load.db) = "no_game" THEN Raised("ArkParseError")
                          ELSE [load EXCEPT !.pc = "asa_rows", !.i = 1]
            /\ UNCHANGED <<data, position>>
       ELSE \E r \in {_read_asa_actor_locations(load.db.transforms[1], 0, <<>>)} :
               /\ data' = load.db.transforms[1]
               /\ position' = r.pos
               /\ load' = IF r.st # "ok" THEN Raised(r.st)
                          ELSE IF SqliteState(load.db) = "no_game"
                          THEN Raised("ArkParseError")
                          ELSE [load EXCEPT !.pc = "asa_rows", !.i = 1,
                                            !.locations = r.val]
    /\ UNCHANGED <<last, source, name_table, properties, framing, written>>

\* self.objects.append(obj) with the location of its GUID, obj_id += 1.
Appended(l, obj) ==
    [l EXCEPT !.pc = "asa_rows", !.i = @ + 1, !.pending = <<>>,
              !.objects = Append(@, [obj EXCEPT !.location =
                                        IF LocationOf(l.locations, obj.guid) # <<>>
                                        THEN LocationOf(l.locations, obj.guid)
                                        ELSE @])]

\* One row of the game table, up to the call of read_properties: the key
\* becomes a GUID (outside the try), a reader is made over the value, and
\* the object's header is read (inside it).
ParseAsaGameObject ==
    /\ load.pc = "asa_rows"
    /\ load.i <= Len(load.rows)
    /\ LET row == load.rows[load.i] IN
       IF Len(row.key) # 16
       THEN /\ load' = Raised("ValueError")
            /\ UNCHANGED <<data, position, last, name_table, properties, framing>>
       ELSE \E r \in {_parse_asa_game_object(row.value, 0, GuidText(row.key),
                                             Len(load.objects), load.table)} :
               /\ data' = row.value
               /\ position' = r.pos
               /\ IF r.st # "ok"
                  THEN /\ load' = [load EXCEPT
                                     !.i = @ + 1, !.failures = @ + 1,
                                     !.failed = Append(@, [id |-> 0 - 1, st |-> r.st]),
                                     !.parse_errors =
                                         Append(@, [what |-> "GUID",
                                                    guid |-> GuidText(row.key),
                                                    st |-> r.st])]
                       /\ UNCHANGED <<last, name_table, properties, framing>>
                  ELSE IF ~r.val[2]
                  THEN /\ load' = Appended(load, r.val[1])
                       /\ UNCHANGED <<last, name_table, properties, framing>>
                  ELSE /\ load' = [load EXCEPT !.pc = "asa_reading",
                                               !.pending = <<[r.val[1] EXCEPT
                                                                !.start = r.pos]>>]
                       /\ properties' = <<>>
                       /\ framing' = [is_asa |-> TRUE, worldsave_format |-> TRUE]
                       /\ name_table' = load.table
                       /\ last' = [op |-> "new", arg |-> 0, pos0 |-> r.pos, st |-> "ok",
                                   val |-> <<>>]
    /\ UNCHANGED <<source, written>>

\* The rest of the row: read_properties returned, or raised and the error
\* is noted; the object is kept either way.
FinishAsaObject ==
    /\ load.pc = "asa_reading"
    /\ last.op = "read_properties"
    /\ last' = [last EXCEPT !.op = "_parse_asa_game_object"]
    /\ load' =
         IF last.st = "ok"
         THEN Appended(load, [load.pending[1] EXCEPT !.properties = last.val,
                                                     !.end = position,
                                                     !.loaded = TRUE])
         ELSE Appended([load EXCEPT
                          !.failures = @ + 1,
                          !.failed = Append(@, [id |-> load.pending[1].id, st |-> last.st]),
                          !.parse_errors =
                              Append(@, [what |-> "Properties",
                                         guid |-> load.pending[1].guid,
                                         st |-> last.st])],
                       load.pending[1])
    /\ UNCHANGED <<data, position, source, name_table, properties, framing, written>>

LoadNext ==
    \/ ParseHeader \/ ReadObjectHeader \/ HeadersDone \/ SeekProperties
    \/ ReadProperty \/ ReadPropertyAppend \/ ReadPropertiesReturn \/ ReadPropertiesRaise
    \/ FinishProperties \/ LoadReturn
    \/ ParseAsaHeader \/ ReadAsaActorLocations \/ ParseAsaGameObject \/ FinishAsaObject

SpecLoad == LoadInit /\ [][LoadNext]_vars

-----------------------------------------------------------------------------
(* Where the decoding of an object's properties starts and ends.           *)

\* Where a Legacy world save of the given version keeps the offset of its
\* properties block: after the version, the stored-data offsets (11+), the
\* hibernation words (7+) and the name table offset.
BlockOffsetAt(version) ==
    2 + (IF version > 10 THEN 64 ELSE 0) + (IF version > 6 THEN 8 ELSE 0) + 4

\* The properties block offset of the file: the header's in a Legacy world
\* save (from version 6, where the header has one), 0 elsewhere.
BlockOf ==
    IF load.kind = "world" /\ load.version > 5
    THEN Int32At(BlockOffsetAt(load.version)) ELSE 0

IsModernHeader == load.kind \in {"profile", "tribe", "cloud"} /\ load.is_asa

\* The loads of a profile, tribe, cloud or Legacy world-save file.
OfFile == load.kind \in {"profile", "tribe", "cloud", "world"}

-----------------------------------------------------------------------------
(* Errors while the objects of a world save are decoded. *)

WorldKinds == {"world", "asa"}

\* The steps of a load in which one object is decoded: its header is read
\* (Legacy) or its row is taken up (Modern), its properties are read.
ObjectSteps == {"objects", "properties", "reading", "asa_rows", "asa_reading"}

\* C2 as stated: in both world-save paths no error raised while one object
\* is decoded ends the load, which returns a file object in which every
\* other object was decoded from its own bytes.
C2_AsStated ==
    (load.kind \in WorldKinds /\ load.pc = "done") =>
        /\ load.at \notin ObjectSteps
        /\ (load.kind = "world" /\ load.result = "file" /\ load.made.exact) =>
               \A i \in 1..Len(load.objects) :
                   load.made.sound[i] =>
                       /\ load.objects[i].loaded
                       /\ load.objects[i].start = load.made.starts[i]

\* C3 as stated: the file object a world-save load returns holds in
\* parse_errors one entry for every object whose decoding raised an error.
C3_AsStated ==
    (load.kind \in WorldKinds /\ load.result = "file") =>
        Len(load.parse_errors) = load.failures

-----------------------------------------------------------------------------
(* One property header at a time: which names end a list, which types are  *)
(* read (properties/base.py, properties/registry.py).                      *)

\* The instance words written behind a name index.
HeadInstances == {0 - 1, 0, 1, 11}

\* The name of a property as a stream can hold it.  Inline: "None", the
\* empty string (length 0, and length 1 with its NUL), other texts.  Through
\* a table: the entries "None" and "Ab" and two indices the table does not
\* hold, each with every instance.
NameHeads(f) ==
    IF f.table.kind = "none"
    THEN { EncString(txt) : txt \in {<<78, 111, 110, 101>>, <<>>, <<65, 98>>, <<78, 111, 110, 101, 95, 48>>, <<110, 111, 110, 101>>} }
           \cup {EncI32(1) \o <<0>>}
    ELSE IF f.table.kind = "list"
    THEN { Ref(i, n) : i \in {NameNo(<<78, 111, 110, 101>>), NameNo(<<65, 98>>), 0, 99}, n \in HeadInstances }
    ELSE { Ref(k, n) : k \in {KeyOf(NameNo(<<78, 111, 110, 101>>)), KeyOf(NameNo(<<65, 98>>)), 5},
                       n \in HeadInstances }

\* The type name of a property as a stream can hold it: a registered type,
\* a type that is not registered, the empty string, a registered type in
\* other letters; through a table, a registered type with an instance and
\* an index the table does not hold.
TypeHeads(f) ==
    IF f.table.kind = "none"
    THEN { EncString(txt) : txt \in {<<73, 110, 116, 80, 114, 111, 112, 101, 114, 116, 121>>, <<88, 120, 80, 114, 111, 112, 101, 114, 116, 121>>, <<>>, <<105, 110, 116, 112, 114, 111, 112, 101, 114, 116, 121>>} }
    ELSE IF f.table.kind = "list"
    THEN { Ref(i, n) : i \in {NameNo(<<73, 110, 116, 80, 114, 111, 112, 101, 114, 116, 121>>), NameNo(<<88, 120, 80, 114, 111, 112, 101, 114, 116, 121>>), 99}, n \in {0, 1} }
    ELSE { Ref(k, n) : k \in {KeyOf(NameNo(<<73, 110, 116, 80, 114, 111, 112, 101, 114, 116, 121>>)), KeyOf(NameNo(<<88, 120, 80, 114, 111, 112, 101, 114, 116, 121>>)), 5},
                       n \in {0, 1} }

\* What follows the two names of an IntProperty.
IntRest(f) ==
    LET p == [type |-> <<73, 110, 116, 80, 114, 111, 112, 101, 114, 116, 121>>, name |-> <<65, 98>>, arr |-> 0]
        skipped == Len(EncName(f, p.name)) + Len(EncName(f, p.type))
    IN SubSeq(EncProperty(f, p), skipped + 1, Len(EncProperty(f, p)))

\* A stream with one property, whatever its two names are, and the sentinel.
HeadInit ==
    \E f \in Framings :
      \E name \in NameHeads(f), type \in TypeHeads(f) :
        /\ data = name \o type \o IntRest(f) \o Sentinel(f) \o <<7, 7>>
        /\ written = NothingWritten
        /\ name_table = f.table
        /\ framing = [is_asa |-> f.is_asa, worldsave_format |-> f.worldsave_format]
        /\ position = 0
        /\ properties = <<>>
        /\ last = [op |-> "new", arg |-> 0, pos0 |-> 0, st |-> "ok", val |-> <<>>]
        /\ source = NoSource
        /\ load = NoLoad

SpecHead == HeadInit /\ [][PropsNext]_vars

\* The bytes of a string's payload at offset p, for a positive length that
\* lies inside the stream.
StringAt(p) ==
    IF p + 4 > Len(data) THEN [whole |-> FALSE, text |-> <<>>]
    ELSE IF Int32At(p) \in {0, 1} THEN [whole |-> TRUE, text |-> <<>>]
    ELSE IF Int32At(p) < 0 \/ p + 4 + Int32At(p) > Len(data) THEN [whole |-> FALSE, text |-> <<>>]
    ELSE [whole |-> TRUE, text |-> SubSeq(data, p + 5, p + 3 + Int32At(p))]

\* The name that stands at offset p of the stream, as the framing writes
\* names: its text (<<63>> for an index the table does not hold), its
\* instance (0 for an inline string), and whether it lies inside the stream.
NameAt(p) ==
    IF name_table.kind = "none"
    THEN [whole |-> StringAt(p).whole, text |-> StringAt(p).text, instance |-> 0]
    ELSE IF p + 8 > Len(data) THEN [whole |-> FALSE, text |-> <<>>, instance |-> 0]
    ELSE [whole |-> TRUE,
          text |-> IF Int32At(p) \in DOMAIN name_table.names
                   THEN name_table.names[Int32At(p)] ELSE <<63>>,
          instance |-> Int32At(p + 4)]

\* C11 as stated: in every framing read_property returns None (the end of
\* the list) exactly when the name it read is "None" with instance 0; no
\* other text and no other instance ends the list, and that name always does.
C11_AsStated ==
    (last.op = "read_property" /\ NameAt(last.pos0).whole) =>
        /\ (NameAt(last.pos0).text = NAME_NONE /\ NameAt(last.pos0).instance = 0)
               => (last.st = "ok" /\ last.val = <<>>)
        /\ (last.st = "ok" /\ last.val = <<>>)
               => (NameAt(last.pos0).text = NAME_NONE /\ NameAt(last.pos0).instance = 0)

-----------------------------------------------------------------------------
(* Structs (structs/registry.py, structs/vectors.py, structs/colors.py,    *)
(* structs/misc.py, structs/property_list.py).                             *)

\* The keys of STRUCT_REGISTRY.
STRUCT_REGISTRY ==
    {<<86, 101, 99, 116, 111, 114>>, <<86, 101, 99, 116, 111, 114, 50, 68>>, <<82, 111, 116, 97, 116, 111, 114>>, <<81, 117, 97, 116>>, <<73, 110, 116, 80, 111, 105, 110, 116>>, <<73, 110, 116, 86, 101, 99, 116, 111, 114>>,
     <<67, 111, 108, 111, 114>>, <<76, 105, 110, 101, 97, 114, 67, 111, 108, 111, 114>>, <<85, 110, 105, 113, 117, 101, 78, 101, 116, 73, 100, 82, 101, 112, 108>>, <<71, 117, 105, 100>>, <<67, 117, 115, 116, 111, 109, 73, 116, 101, 109, 68, 97, 116, 97, 82, 101, 102>>}

\* ARRAY_NAME_TO_STRUCT_TYPE.get(array_name): <<>> for None.
ARRAY_NAME_TO_STRUCT_TYPE(array_name) ==
    IF array_name = <<67, 117, 115, 116, 111, 109, 67, 111, 108, 111, 114, 115>> THEN <<67, 111, 108, 111, 114>>
    ELSE IF array_name = <<67, 117, 115, 116, 111, 109, 67, 111, 108, 111, 117, 114, 115, 95, 54, 48, 95, 55, 68, 51, 50, 54, 55, 67, 56, 52, 54, 66, 50, 55, 55, 57, 53, 51, 67, 48, 67, 52, 49, 65, 69, 66, 68, 53, 52, 70, 66, 67, 66>> THEN <<76, 105, 110, 101, 97, 114, 67, 111, 108, 111, 114>>
    ELSE <<>>

\* A struct read: its type string, whether a native class read it, and its
\* fields (bit patterns, numbers or texts in the order read) or, for a
\* property-list struct, its properties.
Struct(struct_type, native, value) ==
    [struct_type |-> struct_type, native |-> native, value |-> value]

\* A native struct made of n floating point numbers of one width.
FloatStruct(d, pos, struct_type, n, width) ==
    Then(ReadFloats(d, pos, n, width, <<>>), LAMBDA v :
    R("ok", <<Struct(struct_type, TRUE, v.val)>>, v.pos))

\* A native struct made of n int32 values.
IntStruct(d, pos, struct_type, n) ==
    Then(ReadInt32s(d, pos, n, <<>>), LAMBDA v :
    R("ok", <<Struct(struct_type, TRUE, v.val)>>, v.pos))

Vector_read(d, pos, is_asa) == FloatStruct(d, pos, <<86, 101, 99, 116, 111, 114>>, 3, IF is_asa THEN 8 ELSE 4)

Vector2D_read(d, pos, is_asa) == FloatStruct(d, pos, <<86, 101, 99, 116, 111, 114, 50, 68>>, 2, IF is_asa THEN 8 ELSE 4)

Rotator_read(d, pos, is_asa) == FloatStruct(d, pos, <<82, 111, 116, 97, 116, 111, 114>>, 3, IF is_asa THEN 8 ELSE 4)

\* A Quat.read that follows the generation, as the other vectors do.
Quat_read_mut(d, pos, is_asa, worldsave_format) ==
    FloatStruct(d, pos, <<81, 117, 97, 116>>, 4, IF is_asa THEN 8 ELSE 4)

\* Quat.read: doubles in world-save framing only.
Quat_read(d, pos, is_asa, worldsave_format) ==
    FloatStruct(d, pos, <<81, 117, 97, 116>>, 4, IF worldsave_format THEN 8 ELSE 4)

IntPoint_read(d, pos) == IntStruct(d, pos, <<73, 110, 116, 80, 111, 105, 110, 116>>, 2)

IntVector_read(d, pos) == IntStruct(d, pos, <<73, 110, 116, 86, 101, 99, 116, 111, 114>>, 3)

\* Color.read: b, g, r, a, one byte each.
Color_read(d, pos) ==
    Then(read_uint8(d, pos), LAMBDA b :
    Then(read_uint8(d, b.pos), LAMBDA g :
    Then(read_uint8(d, g.pos), LAMBDA r :
    Then(read_uint8(d, r.pos), LAMBDA a :
    R("ok", <<Struct(<<67, 111, 108, 111, 114>>, TRUE, b.val \o g.val \o r.val \o a.val)>>, a.pos)))))

LinearColor_read(d, pos) == FloatStruct(d, pos, <<76, 105, 110, 101, 97, 114, 67, 111, 108, 111, 114>>, 4, 4)

\* UniqueNetIdRepl.read: Modern has a byte, the platform string, a length
\* byte and that many id bytes (kept as hexadecimal text); Legacy an int32
\* and the id string.
UniqueNetIdRepl_read(d, pos, is_asa) ==
    IF is_asa THEN
        Then(read_uint8(d, pos), LAMBDA unknown :
        Then(read_string(d, unknown.pos), LAMBDA value_type :
        Then(read_uint8(d, value_type.pos), LAMBDA length :
        Then(read_bytes(d, length.pos, length.val[1]), LAMBDA value_bytes :
        R("ok", <<Struct(<<85, 110, 105, 113, 117, 101, 78, 101, 116, 73, 100, 82, 101, 112, 108>>, TRUE,
                         <<unknown.val[1], HexText(value_bytes.val), value_type.val>>)>>,
          value_bytes.pos)))))
    ELSE
        Then(read_int32(d, pos), LAMBDA unknown :
        Then(read_string(d, unknown.pos), LAMBDA net_id :
        R("ok", <<Struct(<<85, 110, 105, 113, 117, 101, 78, 101, 116, 73, 100, 82, 101, 112, 108>>, TRUE, <<unknown.val[1], net_id.val, <<>>>>)>>,
          net_id.pos)))

\* Guid.read: str(reader.read_guid())
Guid_read(d, pos) ==
    Then(read_guid(d, pos), LAMBDA guid_value :
    R("ok", <<Struct(<<71, 117, 105, 100>>, TRUE, UuidText(guid_value.val))>>, guid_value.pos))

CustomItemDataRef_read(d, pos) == IntStruct(d, pos, <<67, 117, 115, 116, 111, 109, 73, 116, 101, 109, 68, 97, 116, 97, 82, 101, 102>>, 4)

\* struct_class.read(reader, is_asa, worldsave_format=worldsave_format) for
\* the class registered under struct_type.
ReadNative(d, pos, struct_type, is_asa, worldsave_format) ==
    CASE struct_type = <<86, 101, 99, 116, 111, 114>> -> Vector_read(d, pos, is_asa)
      [] struct_type = <<86, 101, 99, 116, 111, 114, 50, 68>> -> Vector2D_read(d, pos, is_asa)
      [] struct_type = <<82, 111, 116, 97, 116, 111, 114>> -> Rotator_read(d, pos, is_asa)
      [] struct_type = <<81, 117, 97, 116>> -> Quat_read(d, pos, is_asa, worldsave_format)
      [] struct_type = <<73, 110, 116, 80, 111, 105, 110, 116>> -> IntPoint_read(d, pos)
      [] struct_type = <<73, 110, 116, 86, 101, 99, 116, 111, 114>> -> IntVector_read(d, pos)
      [] struct_type = <<67, 111, 108, 111, 114>> -> Color_read(d, pos)
      [] struct_type = <<76, 105, 110, 101, 97, 114, 67, 111, 108, 111, 114>> -> LinearColor_read(d, pos)
      [] struct_type = <<85, 110, 105, 113, 117, 101, 78, 101, 116, 73, 100, 82, 101, 112, 108>> -> UniqueNetIdRepl_read(d, pos, is_asa)
      [] struct_type = <<71, 117, 105, 100>> -> Guid_read(d, pos)
      [] struct_type = <<67, 117, 115, 116, 111, 109, 73, 116, 101, 109, 68, 97, 116, 97, 82, 101, 102>> -> CustomItemDataRef_read(d, pos)

\* read_properties as a function: the properties up to the sentinel.
RECURSIVE ReadPropertiesFrom(_, _, _, _, _, _)
ReadPropertiesFrom(d, pos, is_asa, nt, worldsave_format, acc) ==
    Then(read_property(d, pos, is_asa, nt, worldsave_format), LAMBDA prop :
    IF prop.val = <<>> THEN R("ok", acc, prop.pos)
    ELSE ReadPropertiesFrom(d, prop.pos, is_asa, nt, worldsave_format, acc \o prop.val))

read_properties(d, pos, is_asa, nt, worldsave_format) ==
    ReadPropertiesFrom(d, pos, is_asa, nt, worldsave_format, <<>>)

\* StructPropertyList.read
StructPropertyList_read(d, pos, is_asa, struct_type, nt, worldsave_format) ==
    Then(read_properties(d, pos, is_asa, nt, worldsave_format), LAMBDA properties_read :
    R("ok", <<Struct(struct_type, FALSE, properties_read.val)>>, properties_read.pos))

\* read_struct with no fallback: a struct type outside the registry is an
\* error.
read_struct_strict_mut(d, pos, struct_type, is_asa, has_index_prefix, nt, worldsave_format) ==
    Then(IF has_index_prefix THEN read_int32(d, pos) ELSE R("ok", <<>>, pos), LAMBDA prefix :
    IF struct_type \in STRUCT_REGISTRY
    THEN ReadNative(d, prefix.pos, struct_type, is_asa, worldsave_format)
    ELSE R("UnknownStructError", <<>>, prefix.pos))

\* read_struct: val = <<struct>>.
read_struct(d, pos, struct_type, is_asa, has_index_prefix, nt, worldsave_format) ==
    Then(IF has_index_prefix THEN read_int32(d, pos) ELSE R("ok", <<>>, pos), LAMBDA prefix :
    IF struct_type \in STRUCT_REGISTRY
    THEN ReadNative(d, prefix.pos, struct_type, is_asa, worldsave_format)
    ELSE StructPropertyList_read(d, prefix.pos, is_asa, struct_type, nt, worldsave_format))

\* read_struct_for_array
read_struct_for_array(d, pos, array_name, is_asa, nt) ==
    IF ARRAY_NAME_TO_STRUCT_TYPE(array_name) # <<>>
    THEN read_struct(d, pos, ARRAY_NAME_TO_STRUCT_TYPE(array_name), is_asa, FALSE, nt, FALSE)
    ELSE StructPropertyList_read(d, pos, is_asa, <<80, 114, 111, 112, 101, 114, 116, 121, 76, 105, 115, 116>>, nt, FALSE)

-----------------------------------------------------------------------------
(* The compound properties (properties/compound.py).                       *)

\* for _ in range(n): three int32 reads.
SkipGroups(d, pos, n) == ReadInt32s(d, pos, 3 * Max(0, n), <<>>)

\* StructProperty._read_worldsave_struct.  A list has no get method.
_read_worldsave_struct(d, pos, header, nt) ==
    IF nt.kind = "none" THEN R("ValueError", <<>>, pos) ELSE
    Then(read_int32(d, pos), LAMBDA struct_header1 :
    Then(read_int32(d, struct_header1.pos), LAMBDA struct_type_id :
    IF nt.kind # "dict" THEN R("AttributeError", <<>>, struct_type_id.pos) ELSE
    Then(ReadInt32s(d, struct_type_id.pos, 5, <<>>), LAMBDA zeros :
    Then(SkipGroups(d, zeros.pos, struct_header1.val[1] - 1), LAMBDA extra :
    Then(read_int32(d, extra.pos), LAMBDA data_size :
    Then(read_uint8(d, data_size.pos), LAMBDA flag_byte :
    Then(IF flag_byte.val[1] % 2 = 1 THEN read_int32(d, flag_byte.pos)
         ELSE R("ok", <<0>>, flag_byte.pos), LAMBDA array_index :
    Then(read_struct(d, array_index.pos,
                     TableGet(nt, struct_type_id.val[1],
                              <<95, 95, 85, 78, 75, 78, 79, 87, 78, 95>> \o IntText(struct_type_id.val[1]) \o <<95, 95>>),
                     TRUE, FALSE, nt, TRUE), LAMBDA struct_value :
    R("ok", <<Prop("StructProperty", header.name, array_index.val[1], struct_value.val[1])>>,
      struct_value.pos)))))))))

\* The cloud-inventory form of a Modern struct or array header:
\* is_asa and header.data_size == 1 and header.index > 0
use_asa_cloud_format(header, is_asa) ==
    is_asa /\ header.data_size = 1 /\ header.index > 0

\* The struct of a StructProperty outside world-save framing, in the
\* cloud-inventory form: val = <<index, struct>>.
ReadCloudStruct(d, pos, header, nt) ==
    Then(read_bytes(d, pos, header.index), LAMBDA struct_type_bytes :
    Then(read_int32(d, struct_type_bytes.pos), LAMBDA extra1 :
    Then(read_string(d, extra1.pos), LAMBDA script_path :
    Then(ReadInt32s(d, script_path.pos, 2, <<>>), LAMBDA sizes :
    Then(read_uint8(d, sizes.pos), LAMBDA extra_byte :
    Then(read_struct(d, extra_byte.pos,
                     Slice(struct_type_bytes.val, 0, Len(struct_type_bytes.val) - 1),
                     TRUE, extra_byte.val[1] % 2 = 1, nt, FALSE), LAMBDA struct_value :
    R("ok", <<header.data_size, struct_value.val[1]>>, struct_value.pos)))))))

\* The same in the plain form: the type as a name, and in Modern framing 17
\* bytes skipped before a struct that is not native.
ReadPlainStruct(d, pos, header, is_asa, nt) ==
    Then(read_name(d, pos, nt), LAMBDA struct_type :
    Then(IF is_asa /\ struct_type.val \notin STRUCT_REGISTRY THEN skip(d, struct_type.pos, 17)
         ELSE R("ok", <<>>, struct_type.pos), LAMBDA skipped :
    Then(read_struct(d, skipped.pos, struct_type.val, is_asa, FALSE, nt, FALSE), LAMBDA struct_value :
    R("ok", <<header.index, struct_value.val[1]>>, struct_value.pos))))

\* StructProperty.read
StructProperty_read(d, pos, header, is_asa, nt, worldsave_format) ==
    IF worldsave_format THEN _read_worldsave_struct(d, pos, header, nt) ELSE
    Then(IF use_asa_cloud_format(header, is_asa) THEN ReadCloudStruct(d, pos, header, nt)
         ELSE ReadPlainStruct(d, pos, header, is_asa, nt), LAMBDA s :
    R("ok", <<Prop("StructProperty", header.name, s.val[1], s.val[2])>>, s.pos))


\* A step inside a try block whose handler keeps what was stored so far.
Caught(r, acc, K(_)) == IF r.st # "ok" THEN R(r.st, acc, r.pos) ELSE K(r)


\* {p.name: p.value for p in props}, later properties overwriting.
RECURSIVE ValDict(_, _)
ValDict(props, acc) ==
    IF props = <<>> THEN acc
    ELSE ValDict(Tail(props), Put(acc, props[1].name, props[1].value))

\* MapProperty.read outside world-save framing: the entries are kept raw.
ReadPlainMap(d, pos, header, is_asa, nt) ==
    Then(read_name(d, pos, nt), LAMBDA key_type :
    Then(read_name(d, key_type.pos, nt), LAMBDA value_type :
    Then(IF is_asa THEN skip(d, value_type.pos, 1) ELSE R("ok", <<>>, value_type.pos), LAMBDA extra :
    Then(read_uint8(d, extra.pos), LAMBDA unknown :
    Then(read_int32(d, unknown.pos), LAMBDA count :
    Then(IF count.val[1] > 0
            /\ header.data_size - 4 - Len(key_type.val) - 5 - Len(value_type.val) - 5 - 1 - 4 > 0
         THEN read_bytes(d, count.pos,
                         header.data_size - 4 - Len(key_type.val) - 5 - Len(value_type.val) - 5 - 1 - 4)
         ELSE R("ok", <<>>, count.pos), LAMBDA raw_data :
    R("ok",
      <<Prop("MapProperty", header.name, header.index,
             [key_type |-> key_type.val, value_type |-> value_type.val,
              entries |-> IF count.val[1] > 0
                             /\ header.data_size - 4 - Len(key_type.val) - 5 - Len(value_type.val) - 5 - 1 - 4 > 0
                          THEN <<<<"_raw", raw_data.val>>, <<"_note", count.val[1]>>>>
                          ELSE <<>>])>>,
      raw_data.pos)))))))

\* name_table.get(id, f"__UNKNOWN_{id}__")
UnknownOr(nt, id) == TableGet(nt, id, <<95, 95, 85, 78, 75, 78, 79, 87, 78, 95>> \o IntText(id) \o <<95, 95>>)

\* The type of a map's keys or values in world-save framing, with its struct
\* sub-header or its padding: val = the type's text.
ReadMapType(d, pos, nt, with_groups) ==
    Then(read_int32(d, pos), LAMBDA type_id :
    Then(read_int32(d, type_id.pos), LAMBDA type_inst :
    IF UnknownOr(nt, type_id.val[1]) = <<83, 116, 114, 117, 99, 116, 80, 114, 111, 112, 101, 114, 116, 121>> THEN
        Then(ReadInt32s(d, type_inst.pos, 7, <<>>), LAMBDA sub :
        Then(IF with_groups THEN SkipGroups(d, sub.pos, sub.val[1] - 1)
             ELSE R("ok", <<>>, sub.pos), LAMBDA extra :
        R("ok", UnknownOr(nt, type_id.val[1]), extra.pos)))
    ELSE
        Then(read_int32(d, type_inst.pos), LAMBDA pad :
        R("ok", UnknownOr(nt, type_id.val[1]), pad.pos))))

\* One key of a world-save map.
ReadMapKey(d, pos, nt, key_type) ==
    IF key_type = <<79, 98, 106, 101, 99, 116, 80, 114, 111, 112, 101, 114, 116, 121>> THEN
        Then(read_bytes(d, pos, 16), LAMBDA key_bytes :
        Then(skip(d, key_bytes.pos, 1), LAMBDA skipped :
        R("ok", HexText(key_bytes.val), skipped.pos)))
    ELSE
        Then(read_int32(d, pos), LAMBDA key_id :
        Then(read_int32(d, key_id.pos), LAMBDA key_inst :
        R("ok", UnknownOr(nt, key_id.val[1]), key_inst.pos)))

\* One value of a world-save map: a property list kept by name for a struct,
\* a placeholder (nothing read) otherwise.
ReadMapValue(d, pos, nt, value_type) ==
    IF value_type = <<83, 116, 114, 117, 99, 116, 80, 114, 111, 112, 101, 114, 116, 121>> THEN
        Then(read_properties(d, pos, TRUE, nt, TRUE), LAMBDA struct_props :
        R("ok", ValDict(struct_props.val, <<>>), struct_props.pos))
    ELSE R("ok", <<60>> \o value_type \o <<32, 118, 97, 108, 117, 101, 62>>, pos)

\* The entry loop of a world-save map.  A failure leaves the loop with the
\* entries stored so far: st is the failure, val those entries.
RECURSIVE ReadMapEntries(_, _, _, _, _, _, _)
ReadMapEntries(d, pos, nt, key_type, value_type, n, acc) ==
    IF n <= 0 THEN R("ok", acc, pos)
    ELSE Caught(ReadMapKey(d, pos, nt, key_type), acc, LAMBDA key_val :
         Caught(ReadMapValue(d, key_val.pos, nt, value_type), acc, LAMBDA value :
         ReadMapEntries(d, value.pos, nt, key_type, value_type, n - 1,
                        Put(acc, key_val.val, value.val))))

\* except Exception: the reader is moved to entries_end when it stopped
\* before it; the map keeps the entries stored so far.
ExceptToEnd(r, entries_end) ==
    IF r.st = "ok" THEN r ELSE R("ok", r.val, Max(r.pos, entries_end))

\* MapProperty._read_worldsave_map.  A list has no get method.
_read_worldsave_map(d, pos, header, nt) ==
    IF nt.kind = "none" THEN R("ValueError", <<>>, pos) ELSE
    Then(read_int32(d, pos), LAMBDA marker :
    IF nt.kind # "dict" THEN
        Then(ReadInt32s(d, marker.pos, 2, <<>>), LAMBDA ids :
        R("AttributeError", <<>>, ids.pos))
    ELSE
    Then(ReadMapType(d, marker.pos, nt, FALSE), LAMBDA key_type :
    Then(ReadMapType(d, key_type.pos, nt, TRUE), LAMBDA value_type :
    Then(read_int32(d, value_type.pos), LAMBDA data_size :
    Then(read_uint8(d, data_size.pos), LAMBDA flag :
    Then(ReadInt32s(d, flag.pos, 2, <<>>), LAMBDA counts :
    Then(ExceptToEnd(ReadMapEntries(d, counts.pos, nt, key_type.val, value_type.val,
                                    counts.val[2], <<>>),
                     IF data_size.val[1] > 8 THEN counts.pos + (data_size.val[1] - 8)
                     ELSE counts.pos), LAMBDA entries :
    R("ok",
      <<Prop("MapProperty", header.name, header.index,
             [key_type |-> key_type.val, value_type |-> value_type.val,
              entries |-> entries.val])>>,
      entries.pos))))))))

\* MapProperty.read
MapProperty_read(d, pos, header, is_asa, nt, worldsave_format) ==
    IF worldsave_format THEN _read_worldsave_map(d, pos, header, nt)
    ELSE ReadPlainMap(d, pos, header, is_asa, nt)


\* A read whose whole result is one element of a list.
Boxed(r) == Then(r, LAMBDA x : R("ok", <<x.val>>, x.pos))


\* One object reference of an ObjectProperty array (None is "None").
ReadObjectElement(d, pos, is_asa, nt) ==
    Then(read_int32(d, pos), LAMBDA ref_type :
    IF is_asa THEN
        IF ref_type.val[1] = 0 - 1 THEN R("ok", <<"None">>, ref_type.pos)
        ELSE IF ref_type.val[1] = 0 THEN
            Then(read_int32(d, ref_type.pos), LAMBDA ref_id :
            R("ok", <<IF ref_id.val[1] = 0 - 1 THEN "None" ELSE <<"id", ref_id.val[1]>>>>, ref_id.pos))
        ELSE
            Then(read_string(d, IF ref_type.val[1] = 1 THEN ref_type.pos ELSE ref_type.pos - 4),
                 LAMBDA path :
            R("ok", <<<<"path", path.val>>>>, path.pos))
    ELSE IF ref_type.val[1] = 0 THEN
        Then(read_int32(d, ref_type.pos), LAMBDA ref_id :
        R("ok", <<<<"id", ref_id.val[1]>>>>, ref_id.pos))
    ELSE IF ref_type.val[1] = 1 THEN
        Then(read_name(d, ref_type.pos, nt), LAMBDA ref_name :
        R("ok", <<<<"name", ref_name.val>>>>, ref_name.pos))
    ELSE
        Then(read_int32(d, ref_type.pos), LAMBDA unknown :
        R("ok", <<<<"unknown", unknown.val[1]>>>>, unknown.pos)))

\* One element of an array outside world-save framing: val = <<element>>.
\* (Struct arrays of the Modern cloud form have their own loop.)
ReadArrayElement(d, pos, array_type, array_name, is_asa, nt) ==
    CASE array_type = <<73, 110, 116, 80, 114, 111, 112, 101, 114, 116, 121>> -> read_int32(d, pos)
      [] array_type = <<85, 73, 110, 116, 51, 50, 80, 114, 111, 112, 101, 114, 116, 121>> -> Boxed(read_uint32(d, pos))
      [] array_type = <<73, 110, 116, 54, 52, 80, 114, 111, 112, 101, 114, 116, 121>> -> Boxed(read_int64(d, pos))
      [] array_type = <<85, 73, 110, 116, 54, 52, 80, 114, 111, 112, 101, 114, 116, 121>> -> Boxed(read_uint64(d, pos))
      [] array_type = <<73, 110, 116, 49, 54, 80, 114, 111, 112, 101, 114, 116, 121>> -> read_int16(d, pos)
      [] array_type = <<85, 73, 110, 116, 49, 54, 80, 114, 111, 112, 101, 114, 116, 121>> -> read_uint16(d, pos)
      [] array_type = <<73, 110, 116, 56, 80, 114, 111, 112, 101, 114, 116, 121>> -> read_int8(d, pos)
      [] array_type = <<66, 121, 116, 101, 80, 114, 111, 112, 101, 114, 116, 121>> -> read_uint8(d, pos)
      [] array_type = <<70, 108, 111, 97, 116, 80, 114, 111, 112, 101, 114, 116, 121>> -> Boxed(read_float(d, pos))
      [] array_type = <<68, 111, 117, 98, 108, 101, 80, 114, 111, 112, 101, 114, 116, 121>> -> Boxed(read_double(d, pos))
      [] array_type = <<66, 111, 111, 108, 80, 114, 111, 112, 101, 114, 116, 121>> ->
            Then(read_uint8(d, pos), LAMBDA b :
            R("ok", <<IF b.val[1] # 0 THEN 1 ELSE 0>>, b.pos))
      [] array_type = <<83, 116, 114, 80, 114, 111, 112, 101, 114, 116, 121>> -> Boxed(read_string(d, pos))
      [] array_type = <<78, 97, 109, 101, 80, 114, 111, 112, 101, 114, 116, 121>> -> Boxed(read_name(d, pos, nt))
      [] array_type = <<79, 98, 106, 101, 99, 116, 80, 114, 111, 112, 101, 114, 116, 121>> -> ReadObjectElement(d, pos, is_asa, nt)
      [] array_type = <<83, 111, 102, 116, 79, 98, 106, 101, 99, 116, 80, 114, 111, 112, 101, 114, 116, 121>> ->
            Then(ReadStrings(d, pos, 2, <<>>), LAMBDA paths :
            Then(read_int32(d, paths.pos), LAMBDA padding :
            R("ok", <<[path |-> paths.val[1], name |-> paths.val[2]]>>, padding.pos)))
      [] array_type = <<83, 116, 114, 117, 99, 116, 80, 114, 111, 112, 101, 114, 116, 121>> -> read_struct_for_array(d, pos, array_name, is_asa, nt)

\* The array types _read_array_elements has a loop for.
ArrayElementTypes == SimpleTypes \cup {<<83, 116, 114, 117, 99, 116, 80, 114, 111, 112, 101, 114, 116, 121>>}

\* for _ in range(n): values.append(<one element>)
RECURSIVE ReadArrayLoop(_, _, _, _, _, _, _, _)
ReadArrayLoop(d, pos, array_type, array_name, is_asa, nt, n, acc) ==
    IF n <= 0 THEN R("ok", acc, pos)
    ELSE Then(ReadArrayElement(d, pos, array_type, array_name, is_asa, nt), LAMBDA element :
         ReadArrayLoop(d, element.pos, array_type, array_name, is_asa, nt, n - 1,
                       acc \o element.val))

\* The structs of a Modern cloud struct array, with 4 bytes skipped between
\* elements when the padding flag is set.
RECURSIVE ReadCloudStructLoop(_, _, _, _, _, _, _)
ReadCloudStructLoop(d, pos, struct_type, nt, has_element_padding, n, acc) ==
    IF n <= 0 THEN R("ok", acc, pos)
    ELSE Then(read_struct(d, pos, struct_type, TRUE, FALSE, nt, FALSE), LAMBDA struct_value :
         ReadCloudStructLoop(d,
                             IF has_element_padding /\ n > 1 THEN Max(0, struct_value.pos + 4)
                             ELSE struct_value.pos,
                             struct_type, nt, has_element_padding, n - 1,
                             acc \o struct_value.val))

\* The StructProperty branch of _read_array_elements for is_asa and
\* count < 0: the array carries its own header, and the reader is moved to
\* the end of the data region when it stopped before it.
ReadCloudStructArray(d, pos, nt) ==
    Then(read_int32(d, pos), LAMBDA extra1 :
    Then(read_string(d, extra1.pos), LAMBDA struct_type :
    Then(read_int32(d, struct_type.pos), LAMBDA extra2 :
    Then(read_string(d, extra2.pos), LAMBDA script_path :
    Then(ReadInt32s(d, script_path.pos, 2, <<>>), LAMBDA sizes :
    Then(read_uint8(d, sizes.pos), LAMBDA extra3 :
    Then(read_int32(d, extra3.pos), LAMBDA actual_count :
    Then(ReadCloudStructLoop(d, actual_count.pos, struct_type.val, nt,
                             (extra3.val[1] \div 8) % 2 = 1, actual_count.val[1], <<>>),
         LAMBDA values :
    R("ok", values.val, Max(values.pos, extra3.pos + sizes.val[2]))))))))))

\* _read_array_elements
_read_array_elements(d, pos, array_type, count, array_name, is_asa, nt) ==
    IF array_type = <<83, 116, 114, 117, 99, 116, 80, 114, 111, 112, 101, 114, 116, 121>> /\ is_asa /\ count < 0 THEN ReadCloudStructArray(d, pos, nt)
    ELSE IF array_type \in ArrayElementTypes
    THEN ReadArrayLoop(d, pos, array_type, array_name, is_asa, nt, count, <<>>)
    ELSE R("ok", <<<<"UnknownArray", array_type, count>>>>, pos)


\* A name reference of a world-save array: the id looked up, with the
\* instance suffix.
ReadTableRef(d, pos, nt) ==
    Then(read_int32(d, pos), LAMBDA name_id :
    Then(read_int32(d, name_id.pos), LAMBDA name_instance :
    R("ok", <<Suffixed(UnknownOr(nt, name_id.val[1]), name_instance.val[1])>>,
      name_instance.pos)))

\* One element of a world-save array: val = <<element>>.
ReadWorldsaveElement(d, pos, element_type, nt) ==
    CASE element_type = <<78, 97, 109, 101, 80, 114, 111, 112, 101, 114, 116, 121>> -> ReadTableRef(d, pos, nt)
      [] element_type = <<79, 98, 106, 101, 99, 116, 80, 114, 111, 112, 101, 114, 116, 121>> ->
            Then(read_uint16(d, pos), LAMBDA marker :
            IF marker.val[1] = 1 THEN ReadTableRef(d, marker.pos, nt)
            ELSE Then(read_bytes(d, marker.pos, 16), LAMBDA guid_bytes :
                 R("ok", <<IF AllZero(guid_bytes.val) THEN "None" ELSE GuidText(guid_bytes.val)>>,
                   guid_bytes.pos)))
      [] element_type = <<83, 111, 102, 116, 79, 98, 106, 101, 99, 116, 80, 114, 111, 112, 101, 114, 116, 121>> ->
            Then(ReadTableRef(d, pos, nt), LAMBDA ref_name :
            Then(read_int32(d, ref_name.pos), LAMBDA padding :
            R("ok", ref_name.val, padding.pos)))
      [] OTHER -> ReadArrayElement(d, pos, element_type, <<>>, TRUE, nt)

\* The element types _read_worldsave_array_elements has a loop for.
WorldsaveElementTypes == SimpleTypes

RECURSIVE ReadWorldsaveLoop(_, _, _, _, _, _)
ReadWorldsaveLoop(d, pos, element_type, nt, n, acc) ==
    IF n <= 0 THEN R("ok", acc, pos)
    ELSE Then(ReadWorldsaveElement(d, pos, element_type, nt), LAMBDA element :
         ReadWorldsaveLoop(d, element.pos, element_type, nt, n - 1, acc \o element.val))

\* _read_worldsave_array_elements
_read_worldsave_array_elements(d, pos, element_type, count, nt) ==
    IF element_type \in WorldsaveElementTypes
    THEN ReadWorldsaveLoop(d, pos, element_type, nt, count, <<>>)
    ELSE IF element_type = <<83, 116, 114, 117, 99, 116, 80, 114, 111, 112, 101, 114, 116, 121>>
    THEN R("ok", <<<<"WorldSaveStructArray", count>>>>, pos)
    ELSE R("ok", <<<<"UnknownWorldSaveArray", element_type, count>>>>, pos)

\* struct_props[key] = prop.value for each property, the key carrying a
\* positive index as name[index].
RECURSIVE KeyedDict(_, _)
KeyedDict(props, acc) ==
    IF props = <<>> THEN acc
    ELSE KeyedDict(Tail(props),
                   Put(acc,
                       IF props[1].index > 0
                       THEN props[1].name \o <<91>> \o IntText(props[1].index) \o <<93>>
                       ELSE props[1].name,
                       props[1].value))

\* One struct of a world-save struct array: val = <<element>>.
ReadWorldsaveStructElement(d, pos, struct_type, nt) ==
    IF struct_type \in STRUCT_REGISTRY
    THEN read_struct(d, pos, struct_type, TRUE, FALSE, nt, TRUE)
    ELSE Then(read_properties(d, pos, TRUE, nt, TRUE), LAMBDA struct_props :
         R("ok", <<KeyedDict(struct_props.val, <<<<<<95, 115, 116, 114, 117, 99, 116, 95, 116, 121, 112, 101>>, struct_type>>>>)>>,
           struct_props.pos))

\* _read_worldsave_struct_array_elements
RECURSIVE _read_worldsave_struct_array_elements(_, _, _, _, _, _)
_read_worldsave_struct_array_elements(d, pos, struct_type, count, nt, acc) ==
    IF count <= 0 THEN R("ok", acc, pos)
    ELSE Then(ReadWorldsaveStructElement(d, pos, struct_type, nt), LAMBDA element :
         _read_worldsave_struct_array_elements(d, element.pos, struct_type, count - 1, nt,
                                               acc \o element.val))

\* The header of a world-save array after the element type:
\* val = <<struct_type, array_index, count>>, struct_type <<>> for None.
ReadWorldsaveArrayHeader(d, pos, element_type, nt) ==
    IF element_type = <<83, 116, 114, 117, 99, 116, 80, 114, 111, 112, 101, 114, 116, 121>> THEN
        Then(ReadInt32s(d, pos, 8, <<>>), LAMBDA h :
        Then(SkipGroups(d, h.pos, h.val[2] - 1), LAMBDA extra :
        Then(read_int32(d, extra.pos), LAMBDA array_byte_length :
        Then(read_uint8(d, array_byte_length.pos), LAMBDA flag_byte :
        Then(read_int32(d, flag_byte.pos), LAMBDA count :
        R("ok", <<UnknownOr(nt, h.val[3]), 0, count.val[1]>>, count.pos))))))
    ELSE
        Then(ReadInt32s(d, pos, 3, <<>>), LAMBDA h :
        Then(read_uint8(d, h.pos), LAMBDA array_index :
        Then(read_int32(d, array_index.pos), LAMBDA count :
        R("ok", <<<<>>, array_index.val[1], count.val[1]>>, count.pos))))

\* ArrayProperty._read_worldsave_array.  A list has no get method.
_read_worldsave_array(d, pos, header, nt) ==
    IF nt.kind = "none" THEN R("ValueError", <<>>, pos) ELSE
    Then(ReadInt32s(d, pos, 2, <<>>), LAMBDA ids :
    IF nt.kind # "dict" THEN R("AttributeError", <<>>, ids.pos) ELSE
    Then(ReadWorldsaveArrayHeader(d, ids.pos, UnknownOr(nt, ids.val[2]), nt), LAMBDA h :
    Then(IF h.val[3] <= 0 THEN R("ok", <<>>, h.pos)
         ELSE IF h.val[1] # <<>>
         THEN _read_worldsave_struct_array_elements(d, h.pos, h.val[1], h.val[3], nt, <<>>)
         ELSE _read_worldsave_array_elements(d, h.pos, UnknownOr(nt, ids.val[2]), h.val[3], nt),
         LAMBDA values :
    R("ok",
      <<Prop("ArrayProperty", header.name, h.val[2],
             [array_type |-> UnknownOr(nt, ids.val[2]), values |-> values.val])>>,
      values.pos))))

\* The header of an array outside world-save framing:
\* val = <<index, array_type, count>>.
ReadArrayHeader(d, pos, header, is_asa, nt) ==
    IF use_asa_cloud_format(header, is_asa) THEN
        Then(read_bytes(d, pos, header.index), LAMBDA array_type_bytes :
        IF DropLast(array_type_bytes.val, 1) = <<83, 116, 114, 117, 99, 116, 80, 114, 111, 112, 101, 114, 116, 121>>
        THEN R("ok", <<header.data_size, DropLast(array_type_bytes.val, 1), 0 - 1>>,
               array_type_bytes.pos)
        ELSE
        Then(ReadInt32s(d, array_type_bytes.pos, 2, <<>>), LAMBDA sizes :
        Then(read_uint8(d, sizes.pos), LAMBDA extra :
        Then(read_int32(d, extra.pos), LAMBDA count :
        R("ok", <<header.data_size, DropLast(array_type_bytes.val, 1), count.val[1]>>,
          count.pos)))))
    ELSE
        Then(read_name(d, pos, nt), LAMBDA array_type :
        Then(IF is_asa THEN read_uint8(d, array_type.pos)
             ELSE R("ok", <<0>>, array_type.pos), LAMBDA extra_byte :
        Then(IF extra_byte.val[1] % 2 = 1 THEN read_int32(d, extra_byte.pos)
             ELSE R("ok", <<header.index>>, extra_byte.pos), LAMBDA index :
        Then(read_int32(d, index.pos), LAMBDA count :
        R("ok", <<index.val[1], array_type.val, count.val[1]>>, count.pos)))))

\* ArrayProperty.read
ArrayProperty_read(d, pos, header, is_asa, nt, worldsave_format) ==
    IF worldsave_format THEN _read_worldsave_array(d, pos, header, nt) ELSE
    Then(ReadArrayHeader(d, pos, header, is_asa, nt), LAMBDA h :
    Then(IF h.val[3] # 0
         THEN _read_array_elements(d, h.pos, h.val[2], h.val[3], header.name, is_asa, nt)
         ELSE R("ok", <<>>, h.pos), LAMBDA values :
    R("ok",
      <<Prop("ArrayProperty", header.name, h.val[1],
             [array_type |-> h.val[2], values |-> values.val])>>,
      values.pos)))

-----------------------------------------------------------------------------
(* Unregistered property types.                                            *)

\* The header read_property read at offset p of the stream.
HeaderAt(p) ==
    read_property_header(data, p, framing.is_asa, name_table, framing.worldsave_format)

\* The call of read_property just made read a header whose type name is
\* not a key of PROPERTY_REGISTRY.
UnregisteredAt(p) ==
    /\ HeaderAt(p).st = "ok"
    /\ HeaderAt(p).val # <<>>
    /\ HeaderAt(p).val[1].type_name \notin PROPERTY_REGISTRY

\* C12: in every framing, a call of read_property that reads a header whose
\* type name is not registered raises UnknownPropertyError and returns no
\* property; the list being built is left as it was and the loop raises the
\* same error.
C12_UnknownTypeRaises ==
    /\ (last.op = "read_property" /\ UnregisteredAt(last.pos0)) =>
            /\ last.st = "UnknownPropertyError"
            /\ last.val = <<>>
            /\ properties = <<>>
    /\ (last.op = "read_properties" /\ UnregisteredAt(last.pos0)) =>
            /\ last.st = "UnknownPropertyError"
            /\ properties = <<>>

\* An unregistered type has been met in world-save framing, where the type
\* is a table reference whose instance number is dropped.
C12_Witness ==
    /\ last.op = "read_property"
    /\ UnregisteredAt(last.pos0)
    /\ framing.worldsave_format
    /\ last.st = "UnknownPropertyError"

-----------------------------------------------------------------------------
(* read_struct as a state machine: one struct read per stream.             *)

\* Longest property list written as a struct body, and the length of a
\* stream of plain bytes long enough for every fixed layout.
MaxFields == 1
RampLen == 40

\* The struct types asked for: the native ones, and three the registry does
\* not hold (the last differs from a native one by case only).
StructTypes == STRUCT_REGISTRY \cup {<<77, 121, 83, 116, 114, 117, 99, 116>>, <<>>, <<118, 101, 99, 116, 111, 114>>}

\* The value of the int32 written ahead of a struct with an index prefix.
PrefixValue == 3

\* A stream holds an optional index prefix, then a property list with its
\* sentinel and two more bytes ("list"), or such a list cut short ("cut"),
\* or RampLen plain bytes ("ramp"), or too few of them ("short").
StructInit ==
    \E f \in Framings, l \in SpecimenLists(MaxFields), has_index_prefix \in BOOLEAN,
       shape \in {"list", "cut", "ramp", "short"} :
        \E body \in {IF has_index_prefix THEN EncI32(PrefixValue) ELSE <<>>} :
        /\ shape \in {"ramp", "short"} => l = <<>>
        /\ data = CASE shape = "list" -> body \o EncList(f, l) \o Sentinel(f) \o <<7, 7>>
                    [] shape = "cut" -> DropLast(body \o EncList(f, l) \o Sentinel(f), 3)
                    [] shape = "ramp" -> body \o [i \in 1..RampLen |-> i]
                    [] shape = "short" -> body \o <<1, 2, 3>>
        /\ written = [valid |-> shape = "list", count |-> Len(l),
                      end |-> Len(body \o EncList(f, l) \o Sentinel(f)),
                      shape |-> shape, has_index_prefix |-> has_index_prefix]
        /\ name_table = f.table
        /\ framing = [is_asa |-> f.is_asa, worldsave_format |-> f.worldsave_format]
        /\ position = 0
        /\ properties = <<>>
        /\ last = [op |-> "new", arg |-> <<>>, pos0 |-> 0, st |-> "ok", val |-> <<>>]
        /\ source = NoSource
        /\ load = NoLoad

\* read_struct(reader, struct_type, is_asa, has_index_prefix, name_table,
\* worldsave_format): arg is the struct type asked for.
ReadStruct ==
    /\ last.op = "new"
    /\ \E struct_type \in StructTypes :
       \E r \in {read_struct(data, position, struct_type, framing.is_asa,
                             written.has_index_prefix, name_table,
                             framing.worldsave_format)} :
        /\ position' = r.pos
        /\ last' = [op |-> "read_struct", arg |-> struct_type, pos0 |-> position,
                    st |-> r.st, val |-> r.val]
    /\ UNCHANGED <<data, source, name_table, properties, framing, written, load>>

StructNext == ReadStruct

SpecStruct == StructInit /\ [][StructNext]_vars

\* The names of the properties of a list, in order.
NamesOf(props) == [i \in DOMAIN props |-> props[i].name]

StructSize(struct_type, is_asa, worldsave_format) ==
    CASE struct_type = <<86, 101, 99, 116, 111, 114>> -> IF is_asa THEN 24 ELSE 12
      [] struct_type = <<86, 101, 99, 116, 111, 114, 50, 68>> -> IF is_asa THEN 16 ELSE 8
      [] struct_type = <<82, 111, 116, 97, 116, 111, 114>> -> IF is_asa THEN 24 ELSE 12
      [] struct_type = <<81, 117, 97, 116>> -> IF is_asa /\ worldsave_format THEN 32 ELSE 16
      [] struct_type = <<73, 110, 116, 80, 111, 105, 110, 116>> -> 8
      [] struct_type = <<73, 110, 116, 86, 101, 99, 116, 111, 114>> -> 12
      [] struct_type = <<67, 111, 108, 111, 114>> -> 4
      [] struct_type = <<76, 105, 110, 101, 97, 114, 67, 111, 108, 111, 114>> -> 16
      [] struct_type = <<71, 117, 105, 100>> -> 16
      [] struct_type = <<67, 117, 115, 116, 111, 109, 73, 116, 101, 109, 68, 97, 116, 97, 82, 101, 102>> -> 16

\* The native struct types of a fixed size.
SizedTypes == STRUCT_REGISTRY \ {<<85, 110, 105, 113, 117, 101, 78, 101, 116, 73, 100, 82, 101, 112, 108>>}

\* C14 as stated: read_struct on a native struct type of a fixed size
\* advances the reader by exactly the byte count of the struct table.
C14_AsStated ==
    (last.op = "read_struct" /\ last.arg \in SizedTypes /\ last.st = "ok") =>
        position - last.pos0 = StructSize(last.arg, framing.is_asa, framing.worldsave_format)

\* C14: read_struct on a native struct type of a fixed size succeeds when
\* the stream is long enough and then advances the reader by the byte
\* count of the struct table, after the 4 bytes of the index prefix when
\* the caller asked for one.
C14_NativeSizes ==
    (last.op = "read_struct" /\ last.arg \in SizedTypes) =>
        /\ written.shape = "ramp" => last.st = "ok"
        /\ last.st = "ok" =>
              position - last.pos0 =
                  StructSize(last.arg, framing.is_asa, framing.worldsave_format)
                    + (IF written.has_index_prefix THEN 4 ELSE 0)

\* A Quat was read in Modern world-save framing, with no index prefix: 32
\* bytes.
C14_Witness ==
    /\ last.op = "read_struct"
    /\ last.arg = <<81, 117, 97, 116>>
    /\ framing.worldsave_format
    /\ ~written.has_index_prefix
    /\ last.st = "ok"
    /\ position - last.pos0 = 32

-----------------------------------------------------------------------------
(* Headers that declare an unsupported version or an impossible count.     *)

\* The versions and object counts written into the headers, and the zero
\* bytes that follow a header.
HeaderVersions == {0 - 1, 0, 1, 2, 4, 5, 6, 7, 8, 12, 13}
HeaderCounts == {0 - 1, 0, MaxObjectCount, MaxObjectCount + 1}
HeaderTail == 16

\* A file that ends after its header: the version and the object count are
\* any of the above, and no object follows.
HeaderInit ==
    \E kind \in {"profile", "tribe", "cloud", "world"}, version \in HeaderVersions,
       modern \in BOOLEAN, count \in HeaderCounts :
        /\ kind = "world" => ~modern
        /\ data = EncPrefix(kind, version, modern, count, 0, 0) \o Zeros(HeaderTail)
        /\ written = [valid |-> FALSE, count |-> count, end |-> 0, version |-> version]
        /\ load = [NoLoad EXCEPT !.kind = kind, !.pc = "header"]
        /\ position = 0
        /\ last = [op |-> "load", arg |-> 0, pos0 |-> 0, st |-> "ok", val |-> <<>>]
        /\ source = NoSource
        /\ name_table = NoTable
        /\ properties = <<>>
        /\ framing = NoFraming

HeaderNext == ParseHeader \/ ReadObjectHeader \/ HeadersDone \/ LoadReturn

SpecHeader == HeaderInit /\ [][HeaderNext]_vars

\* The versions a loader accepts.
Supported(kind) == IF kind = "world" THEN VALID_ASE_VERSIONS ELSE VALID_VERSIONS(kind)

\* C15 as stated: for every file kind, a load that has ended on a file
\* whose header version is not supported, or whose object count is negative
\* or above 1,000,000, has raised: no file object is returned.
C15_AsStated ==
    (/\ load.pc = "done"
     /\ \/ written.version \notin Supported(load.kind)
        \/ written.count < 0
        \/ written.count > MaxObjectCount)
        => load.result # "file"

-----------------------------------------------------------------------------
(* World saves whose objects run past the end of the data.                 *)

BulkObjects ==
    { [names |-> ns, loc |-> ns # <<>>, props |-> ps, bad |-> FALSE, over |-> ov] :
        ns \in {<<>>, <<<<67, 100>>>>},
        ps \in {<<>>, <<[type |-> <<73, 110, 116, 80, 114, 111, 112, 101, 114, 116, 121>>, name |-> <<65, 98>>, arr |-> 0]>>},
        ov \in BOOLEAN }

BulkRows ==
    { [key |-> SomeGuid(1), names |-> <<<<67, 100>>>>,
       props |-> <<[type |-> <<73, 110, 116, 80, 114, 111, 112, 101, 114, 116, 121>>, name |-> <<65, 98>>, arr |-> 0]>>,
       bad |-> FALSE, over |-> ov, shape |-> sh] :
        ov \in BOOLEAN, sh \in {"whole", "torn"} }

\* The lists of 1..n objects drawn from a set.
RECURSIVE ListsOf(_, _)
ListsOf(set, n) ==
    IF n = 0 THEN {}
    ELSE ListsOf(set, n - 1)
           \cup (IF n = 1 THEN { <<o>> : o \in set }
                 ELSE { <<o>> \o l : o \in set,
                                     l \in { x \in ListsOf(set, n - 1) : Len(x) = n - 1 } })

\* A Legacy world save (version 5 with inline names, version 6 with its
\* name table) whose property blocks are whole or end with an overlong
\* string.
BulkFileInit ==
    \E version \in {5, 6}, os \in ListsOf(BulkObjects, MaxObjects) :
        /\ \E m \in {MakeFile("world", version, FALSE, os, 0, "exact", 0)} :
             /\ data = m.bytes
             /\ load = [NoLoad EXCEPT !.kind = "world", !.pc = "header",
                                      !.made = [starts |-> m.starts, ends |-> m.ends,
                                                exact |-> m.exact, sound |-> m.sound]]
        /\ position = 0
        /\ last = [op |-> "load", arg |-> 0, pos0 |-> 0, st |-> "ok", val |-> <<>>]
        /\ source = NoSource
        /\ name_table = NoTable
        /\ properties = <<>>
        /\ framing = NoFraming
        /\ written = NothingWritten

\* A Modern world save whose rows are whole, end inside the first name, or
\* hold an overlong string.
BulkDbInit ==
    \E rs \in ListsOf(BulkRows, MaxObjects),
       transforms \in {<<>>, <<EncTransforms>>} :
        /\ data = <<>>
        /\ position = 0
        /\ load = [NoLoad EXCEPT
                     !.kind = "asa", !.pc = "asa_header", !.is_asa = TRUE,
                     !.db = [header |-> <<EncSaveHeader>>, transforms |-> transforms],
                     !.rows = [i \in 1..Len(rs) |->
                                 [key |-> rs[i].key, value |-> EncAsaObject(rs[i])]],
                     !.made = [starts |-> <<>>, ends |-> <<>>, exact |-> TRUE,
                               sound |-> [i \in 1..Len(rs) |->
                                            rs[i].shape = "whole" /\ ~rs[i].over]]]
        /\ last = [op |-> "load", arg |-> 0, pos0 |-> 0, st |-> "ok", val |-> <<>>]
        /\ source = NoSource
        /\ name_table = NoTable
        /\ properties = <<>>
        /\ framing = NoFraming
        /\ written = NothingWritten

BulkInit == BulkFileInit \/ BulkDbInit

SpecBulk == BulkInit /\ [][LoadNext]_vars

\* C16 as stated: when the load of a world save has returned, no object
\* whose decode raised EndOfDataError is in the objects list.
C16_AsStated ==
    (load.pc = "done" /\ load.result = "file" /\ load.kind \in {"world", "asa"}) =>
        \A k \in DOMAIN load.failed :
            load.failed[k].st = "EndOfDataError" =>
                \A j \in DOMAIN load.objects : load.objects[j].id # load.failed[k].id

-----------------------------------------------------------------------------
(* Files whose objects name their parents.                                 *)

\* One or two names out of Ab, Cd and, where names are written inline, the
\* empty name.
LinkNames(tabled) ==
    {<<>>, <<<<65, 98>>>>, <<<<67, 100>>>>, <<<<67, 100>>, <<65, 98>>>>, <<<<65, 98>>, <<67, 100>>>>, <<<<67, 100>>, <<67, 100>>>>}
      \cup (IF tabled THEN {} ELSE {<<<<>>, <<65, 98>>>>})

LinkObjects(tabled) ==
    { [names |-> ns, loc |-> FALSE, props |-> <<>>, bad |-> FALSE] : ns \in LinkNames(tabled) }
      \cup { [names |-> <<<<65, 98>>>>, loc |-> FALSE, bad |-> b,
              props |-> <<[type |-> <<73, 110, 116, 80, 114, 111, 112, 101, 114, 116, 121>>, name |-> <<65, 98>>, arr |-> 0]>>] : b \in BOOLEAN }

LinkKinds ==
    {<<"profile", 1, FALSE>>, <<"profile", 7, TRUE>>, <<"tribe", 1, FALSE>>,
     <<"cloud", 1, FALSE>>, <<"world", 5, FALSE>>, <<"world", 6, FALSE>>}

LinkFileInit ==
    \E k \in LinkKinds :
      \E os \in ListsOf(LinkObjects(Tabled(k[1], k[2])), MaxObjects) :
        /\ \E m \in {MakeFile(k[1], k[2], k[3], os, 0, "exact", 0)} :
             /\ data = m.bytes
             /\ load = [NoLoad EXCEPT !.kind = k[1], !.pc = "header",
                                      !.made = [starts |-> m.starts, ends |-> m.ends,
                                                exact |-> m.exact, sound |-> m.sound]]
        /\ position = 0
        /\ last = [op |-> "load", arg |-> 0, pos0 |-> 0, st |-> "ok", val |-> <<>>]
        /\ source = NoSource
        /\ name_table = NoTable
        /\ properties = <<>>
        /\ framing = NoFraming
        /\ written = NothingWritten

\* A Modern world save: _parse_asa builds no container.
LinkDbInit ==
    \E os \in ListsOf(LinkObjects(FALSE), MaxObjects) :
        /\ data = <<>>
        /\ position = 0
        /\ load = [NoLoad EXCEPT
                     !.kind = "asa", !.pc = "asa_header", !.is_asa = TRUE,
                     !.db = [header |-> <<EncSaveHeader>>, transforms |-> <<EncTransforms>>],
                     !.rows = [i \in 1..Len(os) |->
                                 [key |-> SomeGuid(i),
                                  value |-> EncAsaObject([key |-> SomeGuid(i), names |-> os[i].names,
                                                          props |-> os[i].props, bad |-> os[i].bad,
                                                          shape |-> "whole"])]],
                     !.made = [starts |-> <<>>, ends |-> <<>>, exact |-> TRUE,
                               sound |-> [i \in 1..Len(os) |-> ~os[i].bad]]]
        /\ last = [op |-> "load", arg |-> 0, pos0 |-> 0, st |-> "ok", val |-> <<>>]
        /\ source = NoSource
        /\ name_table = NoTable
        /\ properties = <<>>
        /\ framing = NoFraming
        /\ written = NothingWritten

LinkInit == LinkFileInit \/ LinkDbInit

SpecLink == LinkInit /\ [][LoadNext]_vars

\* The file has been returned with its container linked.
LinkageRan == load.pc = "done" /\ load.result = "file" /\ load.container # <<>>

\* C17 as stated: after the load and the container linkage every object
\* with two or more names has a parent whose primary name is the object's
\* last name, and the parent's components hold the object under the
\* object's primary name.
C17_AsStated ==
    LinkageRan =>
        \A i \in DOMAIN load.objects :
            Len(load.objects[i].names) >= 2 =>
                /\ load.objects[i].parent # 0
                /\ load.objects[load.objects[i].parent].names # <<>>
                /\ load.objects[load.objects[i].parent].names[1]
                     = load.objects[i].names[Len(load.objects[i].names)]
                /\ DictHas(load.objects[load.objects[i].parent].components, load.objects[i].names[1])
                /\ DictGet(load.objects[load.objects[i].parent].components, load.objects[i].names[1]) = i


\* The position of the last object of the list whose primary name is name
\* (0 when there is none, and for the empty name).
LastNamed(objects, name) ==
    IF \E j \in DOMAIN objects : HasPrimaryName(objects[j]) /\ objects[j].names[1] = name
    THEN CHOOSE j \in DOMAIN objects :
            /\ HasPrimaryName(objects[j]) /\ objects[j].names[1] = name
            /\ \A k \in DOMAIN objects :
                  (HasPrimaryName(objects[k]) /\ objects[k].names[1] = name) => k <= j
    ELSE 0

\* The parent the names of the object at position i ask for (0: none).
NamedParent(objects, i) ==
    IF Len(objects[i].names) >= 2 /\ HasPrimaryName(objects[i])
    THEN LastNamed(objects, objects[i].names[Len(objects[i].names)])
    ELSE 0

\* C17: after the load of a profile, tribe, cloud inventory or Legacy world
\* save, an object with two or more names and a non-empty primary name has
\* as parent the last object of the file whose primary name is the object's
\* last name, when there is one; that parent's components hold, under the
\* object's primary name, the last object of the file with this primary
\* name and this parent.  Any other object has no parent.
C17_LinkedToNamedParent ==
    LinkageRan =>
        \A i \in DOMAIN load.objects :
            /\ load.objects[i].parent = NamedParent(load.objects, i)
            /\ load.objects[i].parent # 0 =>
                  /\ load.objects[load.objects[i].parent].names[1]
                       = load.objects[i].names[Len(load.objects[i].names)]
                  /\ DictHas(load.objects[load.objects[i].parent].components,
                             load.objects[i].names[1])
                  /\ \E m \in {DictGet(load.objects[load.objects[i].parent].components,
                                       load.objects[i].names[1])} :
                        /\ m >= i
                        /\ load.objects[m].names[1] = load.objects[i].names[1]
                        /\ load.objects[m].parent = load.objects[i].parent
                        /\ \A k \in DOMAIN load.objects :
                              (/\ NamedParent(load.objects, k) = load.objects[i].parent
                               /\ load.objects[k].names[1] = load.objects[i].names[1]) => k <= m

\* A component has been linked to another object of the file, which holds it.
C17_Witness ==
    /\ LinkageRan
    /\ \E i \in DOMAIN load.objects :
          /\ Len(load.objects[i].names) >= 2
          /\ load.objects[i].parent \notin {0, i}
          /\ DictGet(load.objects[load.objects[i].parent].components, load.objects[i].names[1]) = i

-----------------------------------------------------------------------------
(* A container used through add, the getters and build_relationships.      *)

MaxContained == 2
MaxCalls == 3

ContainedGuids == {<<>>, <<103, 49>>}
ContainedClasses == {<<>>, <<65, 98>>, <<67, 100>>}
ContainedNames == {<<<<65, 98>>>>, <<<<67, 100>>, <<65, 98>>>>}

ContainerInit ==
    /\ load = [NoLoad EXCEPT !.kind = "container", !.container = <<GameObjectContainer(<<>>)>>]
    /\ data = <<>>
    /\ position = 0
    /\ last = [op |-> "GameObjectContainer", arg |-> 0, pos0 |-> 0, st |-> "ok", val |-> <<>>]
    /\ source = NoSource
    /\ name_table = NoTable
    /\ properties = <<>>
    /\ framing = NoFraming
    /\ written = NothingWritten

\* One more call on the container: its state after the call and what the
\* call returned.
Called(op, arg, c, val) ==
    /\ load' = [load EXCEPT !.container = <<c>>, !.i = @ + 1]
    /\ last' = [op |-> op, arg |-> arg, pos0 |-> 0, st |-> "ok", val |-> val]
    /\ UNCHANGED <<data, position, source, name_table, properties, framing, written>>

Add ==
    /\ load.kind = "container"
    /\ Len(load.container[1].objects) < MaxContained
    /\ \E guid \in ContainedGuids, class_name \in ContainedClasses, names \in ContainedNames :
          /\ load' = [load EXCEPT !.container =
                        <<add(load.container[1],
                              GameObject(Len(load.container[1].objects), guid, class_name,
                                         FALSE, names, <<>>, 0, 0))>>]
          /\ last' = [op |-> "add", arg |-> class_name, pos0 |-> 0, st |-> "ok", val |-> <<>>]
    /\ UNCHANGED <<data, position, source, name_table, properties, framing, written>>

GetByGuid ==
    /\ load.kind = "container" /\ load.i < MaxCalls
    /\ \E guid \in ContainedGuids :
          Called("get_by_guid", guid, get_by_guid(load.container[1], guid).c,
                 get_by_guid(load.container[1], guid).val)

GetByName ==
    /\ load.kind = "container" /\ load.i < MaxCalls
    /\ \E name \in {<<65, 98>>, <<67, 100>>} :
          Called("get_by_name", name, get_by_name(load.container[1], name).c,
                 get_by_name(load.container[1], name).val)

GetByClass ==
    /\ load.kind = "container" /\ load.i < MaxCalls
    /\ \E class_name \in ContainedClasses :
          Called("get_by_class", class_name, get_by_class(load.container[1], class_name).c,
                 get_by_class(load.container[1], class_name).val)

BuildRelationships ==
    /\ load.kind = "container" /\ load.i < MaxCalls
    /\ Called("build_relationships", 0, build_relationships(load.container[1]), <<>>)

ContainerNext == Add \/ GetByGuid \/ GetByName \/ GetByClass \/ BuildRelationships

SpecContainer == ContainerInit /\ [][ContainerNext]_vars

\* The positions from i on of the objects whose class name is class_name.
RECURSIVE OfClass(_, _, _)
OfClass(objects, class_name, i) ==
    IF i > Len(objects) THEN <<>>
    ELSE (IF objects[i].class_name = class_name THEN <<i>> ELSE <<>>)
           \o OfClass(objects, class_name, i + 1)

\* C18 as stated: get_by_class(c) returns the objects of the container
\* whose class name is c, each once, in insertion order, whatever calls of
\* add, get_by_guid, get_by_name, get_by_class and build_relationships came
\* before.
C18_AsStated ==
    last.op = "get_by_class" =>
        last.val = OfClass(load.container[1].objects, last.arg, 1)

-----------------------------------------------------------------------------
(* Property lists that hold struct and array properties too.               *)

\* A StructProperty of type IntPoint.  cloud: the layout of a Modern cloud
\* inventory, whose header holds 1 and the length of the struct type.
EncStructProperty(f, p) ==
    EncName(f, p.name) \o EncName(f, <<83, 116, 114, 117, 99, 116, 80, 114, 111, 112, 101, 114, 116, 121>>)
      \o (IF f.is_asa /\ p.cloud
          THEN EncI32(1) \o EncI32(9) \o <<73, 110, 116, 80, 111, 105, 110, 116>> \o <<0>>
                 \o EncI32(1) \o EncString(<<47, 83>>) \o EncI32(0) \o EncI32(8) \o <<0>>
          ELSE EncI32(8 + Len(EncString(<<73, 110, 116, 80, 111, 105, 110, 116>>))) \o EncI32(p.arr) \o EncString(<<73, 110, 116, 80, 111, 105, 110, 116>>))
      \o EncI32(5) \o EncI32(6)

\* An ArrayProperty of one IntProperty element.
EncArrayProperty(f, p) ==
    EncName(f, p.name) \o EncName(f, <<65, 114, 114, 97, 121, 80, 114, 111, 112, 101, 114, 116, 121>>)
      \o (IF f.is_asa /\ p.cloud
          THEN EncI32(1) \o EncI32(12) \o <<73, 110, 116, 80, 114, 111, 112, 101, 114, 116, 121>> \o <<0>>
                 \o EncI32(0) \o EncI32(8) \o <<0>>
          ELSE EncI32(8 + Len(EncString(<<73, 110, 116, 80, 114, 111, 112, 101, 114, 116, 121>>))) \o EncI32(p.arr) \o EncString(<<73, 110, 116, 80, 114, 111, 112, 101, 114, 116, 121>>)
                 \o (IF f.is_asa THEN <<0>> ELSE <<>>))
      \o EncI32(1) \o EncI32(7)

EncAny(f, p) ==
    IF p.type = <<83, 116, 114, 117, 99, 116, 80, 114, 111, 112, 101, 114, 116, 121>> THEN EncStructProperty(f, p)
    ELSE IF p.type = <<65, 114, 114, 97, 121, 80, 114, 111, 112, 101, 114, 116, 121>> THEN EncArrayProperty(f, p)
    ELSE EncProperty(f, p)

RECURSIVE EncAnyList(_, _)
EncAnyList(f, l) == IF l = <<>> THEN <<>> ELSE EncAny(f, Head(l)) \o EncAnyList(f, Tail(l))

\* The simple properties, and where names are written inline the compound
\* ones.
IndexSpecimens(f) ==
    Specimens
      \cup (IF f.table.kind = "none"
            THEN { [type |-> ty, name |-> <<69, 102>>, arr |-> 0, cloud |-> c] :
                     ty \in {<<83, 116, 114, 117, 99, 116, 80, 114, 111, 112, 101, 114, 116, 121>>, <<65, 114, 114, 97, 121, 80, 114, 111, 112, 101, 114, 116, 121>>}, c \in BOOLEAN }
            ELSE {})

IndexInit ==
    \E f \in Framings, damage \in {"none", "cut"} :
      \E l \in ListsOf(IndexSpecimens(f), MaxProps) :
        /\ data = IF damage = "none" THEN EncAnyList(f, l) \o Sentinel(f)
                  ELSE DropLast(EncAnyList(f, l) \o Sentinel(f), 3)
        /\ written = [valid |-> damage = "none", count |-> Len(l),
                      end |-> Len(EncAnyList(f, l) \o Sentinel(f))]
        /\ name_table = f.table
        /\ framing = [is_asa |-> f.is_asa, worldsave_format |-> f.worldsave_format]
        /\ position = 0
        /\ properties = <<>>
        /\ last = [op |-> "new", arg |-> 0, pos0 |-> 0, st |-> "ok", val |-> <<>>]
        /\ source = NoSource
        /\ load = NoLoad

SpecIndex == IndexInit /\ [][PropsNext]_vars

\* C19 as stated: in the list read_properties returns, a property whose
\* name occurs once has index 0.
C19_AsStated ==
    (last.op = "read_properties" /\ last.st = "ok") =>
        \A i \in DOMAIN last.val :
            (\A j \in DOMAIN last.val : last.val[j].name = last.val[i].name => j = i)
                => last.val[i].index = 0

-----------------------------------------------------------------------------
(* The flag byte of simple properties in Modern world-save framing.        *)

WorldSaveFraming == [is_asa |-> TRUE, worldsave_format |-> TRUE, table |-> PropsDictTable]

FlagBytes == 0..255

FlaggedTypes == {"BoolProperty", "ByteProperty", "IntProperty"}

\* The bytes of the value: none for a bool (its value is in the flag).
FlaggedPayload(ty) ==
    CASE ty = "BoolProperty" -> <<>>
      [] ty = "ByteProperty" -> <<201>>
      [] ty = "IntProperty" -> <<202, 203, 204, 205>>

FlaggedTypeName(ty) ==
    CASE ty = "BoolProperty" -> <<66, 111, 111, 108, 80, 114, 111, 112, 101, 114, 116, 121>>
      [] ty = "ByteProperty" -> <<66, 121, 116, 101, 80, 114, 111, 112, 101, 114, 116, 121>>
      [] ty = "IntProperty" -> <<73, 110, 116, 80, 114, 111, 112, 101, 114, 116, 121>>

\* Name and type, four zero bytes (the marker of a raw ByteProperty), the
\* data size, the flag, the index and the value.  shape: "whole" (the index
\* is there when bit 0 of the flag is set), "bare" (it never is), "cut" (a
\* whole stream that ends early).
FlaggedStream(ty, flag, shape) ==
    EncName(WorldSaveFraming, <<65, 98>>) \o EncName(WorldSaveFraming, FlaggedTypeName(ty))
      \o EncI32(0) \o EncI32(Len(FlaggedPayload(ty))) \o <<flag>>
      \o (IF flag % 2 = 1 /\ shape # "bare" THEN <<101, 0, 0, 0>> ELSE <<>>)
      \o FlaggedPayload(ty)
      \o Sentinel(WorldSaveFraming)

FlagInit ==
    \E ty \in FlaggedTypes, flag \in FlagBytes, shape \in {"whole", "bare", "cut"} :
        /\ data = IF shape = "cut" THEN DropLast(FlaggedStream(ty, flag, shape), 3)
                  ELSE FlaggedStream(ty, flag, shape)
        /\ written = [valid |-> shape = "whole", count |-> 1,
                      end |-> Len(FlaggedStream(ty, flag, shape)),
                      type |-> ty, flag |-> flag, shape |-> shape]
        /\ name_table = PropsDictTable
        /\ framing = [is_asa |-> TRUE, worldsave_format |-> TRUE]
        /\ position = 0
        /\ properties = <<>>
        /\ last = [op |-> "new", arg |-> 0, pos0 |-> 0, st |-> "ok", val |-> <<>>]
        /\ source = NoSource
        /\ load = NoLoad

SpecFlag == FlagInit /\ [][PropsNext]_vars

\* The offset after the flag byte: two name references, the padding, the
\* data size and the flag.
AfterFlag == 25

\* read_property has returned the first property of the stream.
FirstRead == last.op = "read_property" /\ last.pos0 = 0 /\ last.st = "ok" /\ last.val # <<>>

-----------------------------------------------------------------------------
(* The struct arrays of a Modern cloud inventory.                          *)

MaxElements == 2

CloudFraming == [is_asa |-> TRUE, worldsave_format |-> FALSE, table |-> NoTable]

\* The property list of one element.
CloudElements ==
    {<<>>, <<[type |-> <<73, 110, 116, 80, 114, 111, 112, 101, 114, 116, 121>>, name |-> <<65, 98>>, arr |-> 0]>>}

\* The elements one after another, with 4 bytes between them when padded.
RECURSIVE EncElements(_, _)
EncElements(es, padded) ==
    IF es = <<>> THEN <<>>
    ELSE EncList(CloudFraming, Head(es)) \o Sentinel(CloudFraming)
           \o (IF padded /\ Len(es) > 1 THEN <<9, 9, 9, 9>> ELSE <<>>)
           \o EncElements(Tail(es), padded)

\* The header of the array up to its extra byte.
EncCloudArrayHead(size, extra3) ==
    EncI32(1) \o EncString(<<77, 121, 83, 116, 114, 117, 99, 116>>) \o EncI32(1) \o EncString(<<47, 83>>)
      \o EncI32(0) \o EncI32(size) \o <<extra3>>

\* The declared size: the count field and the elements, with slack more
\* bytes (fewer when slack is negative); "none": a declared size of 0.
CloudArrayInit ==
    \E es \in {<<>>} \cup ListsOf(CloudElements, MaxElements),
       extra3 \in {0, 8, 9, 247}, padded \in BOOLEAN, slack \in {0 - 4, 0, 4},
       cut \in BOOLEAN :
      \E body \in {EncI32(Len(es)) \o EncElements(es, padded)} :
      \E head \in {EncCloudArrayHead(Len(body) + slack, extra3)} :
        /\ data = IF cut THEN DropLast(head \o body, 3)
                  ELSE head \o body \o [i \in 1..8 |-> 7]
        /\ written = [valid |-> ~cut, count |-> Len(es),
                      end |-> Len(head) + Len(body), after_extra |-> Len(head),
                      size |-> Len(body) + slack, extra3 |-> extra3, padded |-> padded,
                      elements |-> es]
        /\ name_table = NoTable
        /\ framing = [is_asa |-> TRUE, worldsave_format |-> FALSE]
        /\ position = 0
        /\ properties = <<>>
        /\ last = [op |-> "new", arg |-> 0, pos0 |-> 0, st |-> "ok", val |-> <<>>]
        /\ source = NoSource
        /\ load = NoLoad

\* _read_array_elements(reader, "StructProperty", -1, ...) with is_asa.
ReadArrayElements ==
    /\ last.op = "new"
    /\ \E r \in {_read_array_elements(data, position, <<83, 116, 114, 117, 99, 116, 80, 114, 111, 112, 101, 114, 116, 121>>, 0 - 1, <<65, 98>>,
                                      framing.is_asa, name_table)} :
        /\ position' = r.pos
        /\ last' = [op |-> "_read_array_elements", arg |-> 0, pos0 |-> position,
                    st |-> r.st, val |-> r.val]
    /\ UNCHANGED <<data, source, name_table, properties, framing, written, load>>

CloudArrayNext == ReadArrayElements

SpecCloudArray == CloudArrayInit /\ [][CloudArrayNext]_vars

\* The element padding flag: bit 3 of the extra byte.
PaddingFlag == (written.extra3 \div 8) % 2 = 1

ArrayRead == last.op = "_read_array_elements" /\ last.st = "ok"

\* The names and types of the properties of a decoded struct.
RECURSIVE Digest(_)
Digest(props) ==
    IF props = <<>> THEN <<>>
    ELSE <<[name |-> Head(props).name, type |-> Head(props).type_name]>> \o Digest(Tail(props))

\* C21 as stated: when bit 3 of the extra byte is set, the 4 bytes between
\* consecutive elements are consumed (the elements of a padded array are
\* all decoded) and none after the last, and the reader does not stand
\* beyond the offset after the extra byte plus the declared data size.
C21_AsStated ==
    (ArrayRead /\ PaddingFlag) =>
        /\ (written.padded /\ written.valid) =>
              /\ Len(last.val) = written.count
              /\ position = Max(written.end, written.after_extra + written.size)
        /\ position <= written.after_extra + written.size

\* The part on the padding alone.
PaddingConsumed ==
    (ArrayRead /\ PaddingFlag /\ written.padded /\ written.valid) =>
        /\ Len(last.val) = written.count
        /\ position = Max(written.end, written.after_extra + written.size)
        /\ \A i \in DOMAIN last.val :
              /\ last.val[i].struct_type = <<77, 121, 83, 116, 114, 117, 99, 116>>
              /\ Len(last.val[i].value) = Len(written.elements[i])

-----------------------------------------------------------------------------
(* Modern world saves and their ActorTransforms blob.                      *)

MaxEntries == 3

\* An entry of the blob: a GUID (0 for the all-zero GUID that ends the
\* list) and one of two locations.
TransformEntries ==
    { [guid |-> g, loc |-> l] : g \in {0, 1, 2}, l \in {0, 100} }

EntryGuid(e) == IF e.guid = 0 THEN Zeros(16) ELSE SomeGuid(e.guid)

\* x, y, z, pitch, yaw, roll, 8 bytes each, and 8 more bytes.
EntryBytes(e) ==
    EntryGuid(e) \o (IF e.guid = 0 THEN <<>> ELSE [k \in 1..48 |-> e.loc + k] \o Zeros(8))

RECURSIVE EncEntries(_)
EncEntries(es) == IF es = <<>> THEN <<>> ELSE EntryBytes(Head(es)) \o EncEntries(Tail(es))

\* The bytes of the six numbers of an entry (x, y, z, pitch, yaw, roll), as
\* the reader unpacks them.
EntryLocation(e) == [k \in 1..48 |-> e.loc + k]

\* tail: "whole"; "odd" (fewer than 16 bytes after the last entry); "torn"
\* (the blob ends inside the numbers of its last entry).
TransformsInit ==
    \E es \in {<<>>} \cup ListsOf(TransformEntries, MaxEntries),
       tail \in {"whole", "odd", "torn"},
       keys \in {<<1>>, <<2>>, <<1, 2>>, <<1, 1>>},
       bad \in BOOLEAN :
        /\ tail = "torn" => es # <<>> /\ es[Len(es)].guid # 0
        /\ data = <<>>
        /\ position = 0
        /\ load = [NoLoad EXCEPT
                     !.kind = "asa", !.pc = "asa_header", !.is_asa = TRUE,
                     !.db = [header |-> <<EncSaveHeader>>,
                             transforms |-> <<CASE tail = "whole" -> EncEntries(es)
                                                [] tail = "odd" -> EncEntries(es) \o <<5, 5, 5>>
                                                [] tail = "torn" -> DropLast(EncEntries(es), 20)>>],
                     !.rows = [i \in 1..Len(keys) |->
                                 [key |-> SomeGuid(keys[i]),
                                  value |-> EncAsaObject(
                                      [key |-> SomeGuid(keys[i]), names |-> <<<<67, 100>>>>,
                                       props |-> <<[type |-> <<73, 110, 116, 80, 114, 111, 112, 101, 114, 116, 121>>, name |-> <<65, 98>>,
                                                    arr |-> 0]>>,
                                       bad |-> bad /\ i = 1, shape |-> "whole"])]],
                     !.made = [starts |-> <<>>, ends |-> <<>>, exact |-> TRUE,
                               sound |-> [i \in 1..Len(keys) |-> ~(bad /\ i = 1)]]]
        /\ last = [op |-> "load", arg |-> 0, pos0 |-> 0, st |-> "ok", val |-> <<>>]
        /\ source = NoSource
        /\ name_table = NoTable
        /\ properties = <<>>
        /\ framing = NoFraming
        /\ written = [valid |-> tail # "torn", count |-> Len(es), end |-> 0, entries |-> es]

TransformsNext ==
    \/ ParseAsaHeader
    \/ ReadAsaActorLocations
    \/ ParseAsaGameObject
    \/ ReadProperty
    \/ ReadPropertyAppend
    \/ ReadPropertiesReturn
    \/ ReadPropertiesRaise
    \/ FinishAsaObject
    \/ LoadReturn

SpecTransforms == TransformsInit /\ [][TransformsNext]_vars

\* The entries in front of the first all-zero GUID.
Listed(es) ==
    { k \in DOMAIN es : \A j \in 1..k : es[j].guid # 0 }

\* The entries of a GUID, given as the text a decoded object carries.
EntriesOf(es, guid_str) ==
    { k \in Listed(es) : GuidText(EntryGuid(es[k])) = guid_str }

ModernLoaded == load.pc = "done" /\ load.result = "file" /\ load.kind = "asa"

\* C22 as stated: after the load of a Modern world save an object has the
\* location of every entry of its GUID listed before the all-zero GUID,
\* and no location when there is no such entry.
C22_AsStated ==
    ModernLoaded =>
        \A i \in DOMAIN load.objects :
            /\ \A k \in EntriesOf(written.entries, load.objects[i].guid) :
                  load.objects[i].location = <<EntryLocation(written.entries[k])>>
            /\ EntriesOf(written.entries, load.objects[i].guid) = {} =>
                  load.objects[i].location = <<>>

\* C22: after the load of a Modern world save an object whose GUID is
\* listed in ActorTransforms before the all-zero GUID has the x, y, z and
\* rotation of the last entry of that GUID, and an object whose GUID is not
\* listed has no location.
C22_LocationsAssembled ==
    ModernLoaded =>
        \A i \in DOMAIN load.objects :
            /\ \A k \in EntriesOf(written.entries, load.objects[i].guid) :
                  (\A j \in EntriesOf(written.entries, load.objects[i].guid) : j <= k) =>
                      load.objects[i].location = <<EntryLocation(written.entries[k])>>
            /\ EntriesOf(written.entries, load.objects[i].guid) = {} =>
                  load.objects[i].location = <<>>

\* Two objects have been assembled: one whose GUID is listed twice, with
\* the location of the second entry, and one whose GUID is not listed, with
\* no location.
C22_Witness ==
    /\ ModernLoaded
    /\ Len(load.objects) = 2
    /\ Len(written.entries) >= 2
    /\ written.entries[1] = [guid |-> 1, loc |-> 0]
    /\ written.entries[2] = [guid |-> 1, loc |-> 100]
    /\ load.objects[1].location = <<EntryLocation(written.entries[2])>>
    /\ load.objects[2].location = <<>>


\* ---------------------------------------------------------------------------
\* The SQLite connection of a Modern world save (WorldSave._parse_asa)
\* ---------------------------------------------------------------------------

\* Databases: the custom table missing, the SaveHeader row missing, whole or
\* cut short; the ActorTransforms row missing, whole or cut short; the game
\* table missing or holding rows.
ConnInit ==
    \E rs \in RowLists(MaxObjects),
       header \in {<<>>, <<EncSaveHeader>>, <<DropLast(EncSaveHeader, 3)>>},
       transforms \in {<<>>, <<EncTransforms>>, <<DropLast(EncTransforms, 30)>>},
       sqlite \in {"ok", "no_custom", "no_game"} :
        /\ sqlite = "no_custom" => header = <<>> /\ transforms = <<>>
        /\ sqlite # "ok" => rs = <<>>
        /\ data = <<>>
        /\ position = 0
        /\ load = [NoLoad EXCEPT
                     !.kind = "asa", !.pc = "asa_header", !.is_asa = TRUE,
                     !.db = [header |-> header, transforms |-> transforms,
                             sqlite |-> sqlite],
                     !.rows = [i \in 1..Len(rs) |->
                                 [key |-> rs[i].key, value |-> EncAsaObject(rs[i])]],
                     !.made = [starts |-> <<>>, ends |-> <<>>, exact |-> TRUE,
                               sound |-> [i \in 1..Len(rs) |->
                                            rs[i].shape = "flagless"
                                            \/ (rs[i].shape = "whole" /\ ~rs[i].bad)]]]
        /\ last = [op |-> "load", arg |-> 0, pos0 |-> 0, st |-> "ok", val |-> <<>>]
        /\ source = NoSource
        /\ name_table = NoTable
        /\ properties = <<>>
        /\ framing = NoFraming
        /\ written = NothingWritten

SpecConn == ConnInit /\ [][TransformsNext]_vars

\* C23: every load of a Modern world save that opened the database
\* connection has closed it when load returns or raises.
C23_AsStated ==
    (load.kind = "asa" /\ load.pc = "done") => load.conn # "open"

\* The connection is closed exactly when load returns the save.
C23_ClosedOnReturn ==
    (load.kind = "asa" /\ load.pc = "done")
        => (load.conn = "closed") = (load.result = "file")


\* ---------------------------------------------------------------------------
\* Two readers decoding at once over one name table
\* ---------------------------------------------------------------------------

\* In this specification data, position, properties and last hold one
\* entry per reader: each BinaryReader owns its stream (BytesIO) and the
\* cursor of that stream, each read_properties call its own list.
MaxPair == 1

Readers == {1, 2}

PairSpecimens(f) ==
    {[type |-> <<73, 110, 116, 80, 114, 111, 112, 101, 114, 116, 121>>, name |-> <<65, 98>>, arr |-> 0],
     [type |-> <<78, 97, 109, 101, 80, 114, 111, 112, 101, 114, 116, 121>>, name |-> <<67, 100>>, arr |-> 0]}
      \cup (IF f.table.kind = "none"
            THEN {[type |-> <<83, 116, 114, 117, 99, 116, 80, 114, 111, 112, 101, 114, 116, 121>>, name |-> <<69, 102>>, arr |-> 0, cloud |-> FALSE]}
            ELSE {[type |-> <<83, 116, 114, 80, 114, 111, 112, 101, 114, 116, 121>>, name |-> <<65, 98>>, arr |-> 3]})

PairStream(f, l, damage) ==
    IF damage THEN DropLast(EncAnyList(f, l) \o Sentinel(f), 3)
    ELSE EncAnyList(f, l) \o Sentinel(f)

\* The second reader of the pair: either a reader over a buffer of its own
\* (BinaryReader.from_bytes), or the sub-reader the first one hands out
\* with slice(size) before both decode.
PairInit ==
    \E f \in Framings, mode \in {"separate", "slice"}, damage \in BOOLEAN :
      \E l1 \in {<<>>} \cup ListsOf(PairSpecimens(f), MaxPair),
         l2 \in {<<>>} \cup ListsOf(PairSpecimens(f), MaxPair) :
        /\ \E sub \in {slice(PairStream(f, l2, damage) \o PairStream(f, l1, FALSE), 0,
                             Len(PairStream(f, l2, damage)))} :
            /\ data = IF mode = "separate"
                      THEN <<PairStream(f, l1, damage), PairStream(f, l2, FALSE)>>
                      ELSE <<PairStream(f, l2, damage) \o PairStream(f, l1, FALSE), sub.val>>
            /\ position = IF mode = "separate" THEN <<0, 0>> ELSE <<sub.pos, 0>>
            /\ written = [valid |-> ~damage, count |-> Len(l1) + Len(l2), end |-> 0,
                          start |-> IF mode = "separate" THEN <<0, 0>> ELSE <<sub.pos, 0>>,
                          mode |-> mode, table |-> f.table]
        /\ name_table = f.table
        /\ framing = [is_asa |-> f.is_asa, worldsave_format |-> f.worldsave_format]
        /\ properties = <<<<>>, <<>>>>
        /\ last = [i \in Readers |->
                     [op |-> "new", arg |-> 0, pos0 |-> position[i], st |-> "ok", val |-> <<>>]]
        /\ source = NoSource
        /\ load = NoLoad

\* Every reader tells the cursor of the parent's stream.
tell_mut(i) == position[1]

\* BinaryReader.position of reader i: the cursor of its own stream.
tell(i) == position[i]

\* One reader calls read_property.
DecodeRead ==
    \E i \in Readers :
        /\ last[i].op \in {"new", "append"}
        /\ \E r \in {read_property(data[i], tell(i), framing.is_asa, name_table,
                                   framing.worldsave_format)} :
            /\ position' = [position EXCEPT ![i] = r.pos]
            /\ last' = [last EXCEPT ![i] = [op |-> "read_property", arg |-> 0,
                                            pos0 |-> last[i].pos0, st |-> r.st,
                                            val |-> r.val]]
        /\ UNCHANGED <<data, source, name_table, properties, framing, written, load>>

\* One reader's read_properties appends what it read.
DecodeAppend ==
    \E i \in Readers :
        /\ last[i].op = "read_property"
        /\ last[i].st = "ok"
        /\ last[i].val # <<>>
        /\ properties' = [properties EXCEPT ![i] = Append(@, last[i].val[1])]
        /\ last' = [last EXCEPT ![i].op = "append"]
        /\ UNCHANGED <<data, position, source, name_table, framing, written, load>>

\* One reader's read_properties returns its list.
DecodeReturn ==
    \E i \in Readers :
        /\ last[i].op = "read_property"
        /\ last[i].st = "ok"
        /\ last[i].val = <<>>
        /\ last' = [last EXCEPT ![i].op = "read_properties", ![i].val = properties[i]]
        /\ UNCHANGED <<data, position, source, name_table, properties, framing, written, load>>

\* One reader's read_properties raises.
DecodeRaise ==
    \E i \in Readers :
        /\ last[i].op = "read_property"
        /\ last[i].st # "ok"
        /\ last' = [last EXCEPT ![i].op = "read_properties", ![i].val = <<>>]
        /\ UNCHANGED <<data, position, source, name_table, properties, framing, written, load>>

PairNext == DecodeRead \/ DecodeAppend \/ DecodeReturn \/ DecodeRaise

SpecPair == PairInit /\ [][PairNext]_vars

\* What reader i's decode gives when nothing else runs.
Alone(i) ==
    read_properties(data[i], written.start[i], framing.is_asa, written.table,
                    framing.worldsave_format)

SameAsAlone(i, alone) ==
    /\ last[i].st = alone.st
    /\ position[i] = alone.pos
    /\ last[i].st = "ok" => last[i].val = alone.val

\* C24: in every interleaving of the decode steps of two readers over
\* different buffers (two buffers, or a parent and the sub-reader it sliced
\* off) that share one name table, each decode ends with the properties,
\* outcome and position it has when run alone, and the name table is never
\* changed.
C24_NoInterference ==
    /\ name_table = written.table
    /\ \A i \in Readers :
         last[i].op = "read_properties" => SameAsAlone(i, Alone(i))

\* The sub-reader has decoded its whole list of one property while the
\* parent it was sliced from stands between two of its own reads.
C24_Witness ==
    /\ written.mode = "slice"
    /\ last[2].op = "read_properties" /\ last[2].st = "ok" /\ Len(last[2].val) = 1
    /\ last[1].op = "append" /\ Len(properties[1]) = 1
    /\ position[1] < Len(data[1])


\* ---------------------------------------------------------------------------
\* ArkName.from_string and back (common/types.py)
\* ---------------------------------------------------------------------------

MaxText == 4

\* The characters names are drawn from: a letter, the underscore, the
\* digits 0, 1 and 9, a line feed, and the Arabic-Indic digit three
\* (U+0663), which \d and int() accept as well.
TextChars == {97, 95, 48, 49, 57, 10, 1635}

RECURSIVE Texts(_)
Texts(n) ==
    IF n = 0 THEN {<<>>}
    ELSE Texts(n - 1)
           \cup { <<c>> \o t : c \in TextChars, t \in { x \in Texts(n - 1) : Len(x) = n - 1 } }

\* \d of a str pattern: the decimal digits of Unicode, here the ASCII and
\* the Arabic-Indic ones.
IsDigit(c) == c \in 48..57 \/ c \in 1632..1641

DigitValue(c) == IF c \in 48..57 THEN c - 48 ELSE c - 1632

\* int(text) for a text of decimal digits.
RECURSIVE int(_)
int(text) ==
    IF text = <<>> THEN 0
    ELSE 10 * int(SubSeq(text, 1, Len(text) - 1)) + DigitValue(text[Len(text)])

\* $ without re.MULTILINE: at the end of the string, or before a line feed
\* that ends the string.
AtDollar(s, e) == e = Len(s) \/ (e = Len(s) - 1 /\ s[Len(s)] = 10)

\* _NAME_INDEX_PATTERN.match(value) with the underscore at u: group 1 is
\* the text before it, one or more characters other than a line feed;
\* group 2 the digits after it, up to e.
MatchesAt(s, u, e) ==
    /\ u > 1
    /\ s[u] = 95
    /\ \A k \in 1..(u - 1) : s[k] # 10
    /\ e > u
    /\ \A k \in (u + 1)..e : IsDigit(s[k])
    /\ AtDollar(s, e)

\* The matches of the pattern, as <<u, e>> pairs.
Matches(s) ==
    { ue \in (1..Len(s)) \X (1..Len(s)) : MatchesAt(s, ue[1], ue[2]) }

\* The match the engine reports: .+ is greedy, so the rightmost underscore
\* that admits one.
TheMatch(s) ==
    CHOOSE ue \in Matches(s) : \A other \in Matches(s) : other[1] <= ue[1]

\* ArkName.from_string without the shift of the instance.
from_string_mut(value) ==
    IF value = <<>> THEN <<<<>>, 0>>
    ELSE IF Matches(value) # {}
    THEN <<SubSeq(value, 1, TheMatch(value)[1] - 1),
           int(SubSeq(value, TheMatch(value)[1] + 1, TheMatch(value)[2]))>>
    ELSE <<value, 0>>

\* ArkName.from_string: <<name, instance>>.
from_string(value) ==
    IF value = <<>> THEN <<<<>>, 0>>
    ELSE IF Matches(value) # {}
    THEN <<SubSeq(value, 1, TheMatch(value)[1] - 1),
           int(SubSeq(value, TheMatch(value)[1] + 1, TheMatch(value)[2])) + 1>>
    ELSE <<value, 0>>

\* data is the string s; properties collects f(s), then f(f(s)).
TextInit ==
    \E s \in Texts(MaxText) :
        /\ data = s
        /\ position = 0
        /\ properties = <<>>
        /\ last = [op |-> "new", arg |-> 0, pos0 |-> 0, st |-> "ok", val |-> <<>>]
        /\ source = NoSource
        /\ name_table = NoTable
        /\ framing = NoFraming
        /\ written = NothingWritten
        /\ load = NoLoad

\* ArkName.from_string(s), then of what the last str() gave.
FromString ==
    /\ last.op \in {"new", "__str__"}
    /\ Len(properties) < 2
    /\ \E value \in {IF properties = <<>> THEN data ELSE properties[Len(properties)]} :
        last' = [op |-> "from_string", arg |-> value, pos0 |-> 0, st |-> "ok",
                 val |-> from_string(value)]
    /\ UNCHANGED <<data, position, source, name_table, properties, framing, written, load>>

\* str(name) of the ArkName just parsed.
Str ==
    /\ last.op = "from_string"
    /\ \E text \in {ArkName_str(last.val[1], last.val[2])} :
        /\ last' = [op |-> "__str__", arg |-> last.val, pos0 |-> 0, st |-> "ok",
                    val |-> text]
        /\ properties' = Append(properties, text)
    /\ UNCHANGED <<data, position, source, name_table, framing, written, load>>

TextNext == FromString \/ Str

SpecText == TextInit /\ [][TextNext]_vars

\* C25: with f(s) = str(ArkName.from_string(s)), f(f(s)) = f(s) for every
\* string s.
C25_Idempotent ==
    Len(properties) = 2 => properties[2] = properties[1]

\* "a_01" is not a fixed point (f gives "a_1", without the zero), and f
\* applied again gives "a_1".
C25_Witness ==
    /\ data = <<97, 95, 48, 49>>
    /\ properties = <<<<97, 95, 49>>, <<97, 95, 49>>>>


\* ---------------------------------------------------------------------------
\* The loop of read_properties on headers with any data size
\* ---------------------------------------------------------------------------

MaxKept == 3

\* A property written with a data size of the writer's choosing.
EncSized(f, p, size) ==
    IF f.worldsave_format
    THEN EncName(f, p.name) \o EncName(f, p.type)
           \o EncIndex(f, p.type, p.arr, size) \o EncPayload(f, p.type)
    ELSE EncName(f, p.name) \o EncName(f, p.type) \o EncI32(size) \o EncI32(p.arr)
           \o EncIndex(f, p.type, p.arr, 0) \o EncPayload(f, p.type)

\* The bytes of a header up to its payload.
HeaderLen(f, p) == Len(EncSized(f, p, 0)) - Len(EncPayload(f, p.type))

LoopTypes == {<<79, 98, 106, 101, 99, 116, 80, 114, 111, 112, 101, 114, 116, 121>>, <<73, 110, 116, 80, 114, 111, 112, 101, 114, 116, 121>>, <<83, 116, 114, 80, 114, 111, 112, 101, 114, 116, 121>>, <<66, 121, 116, 101, 80, 114, 111, 112, 101, 114, 116, 121>>}

\* Data sizes: the true one, small ones, negative ones, and the negated
\* length of the header or of everything up to the payload.
SizesOf(f, p, before) ==
    {Len(EncPayload(f, p.type)), 0, 3, 0 - 1, 0 - 4, 0 - HeaderLen(f, p),
     0 - (before + HeaderLen(f, p))}

LoopInit ==
    \E f \in Framings, ty \in LoopTypes, lead \in BOOLEAN :
      \E p \in {[type |-> ty, name |-> <<65, 98>>, arr |-> 0]},
         first \in {IF lead THEN EncProperty(f, [type |-> <<73, 110, 116, 80, 114, 111, 112, 101, 114, 116, 121>>, name |-> <<67, 100>>, arr |-> 0])
                    ELSE <<>>} :
        \E size \in SizesOf(f, p, Len(first)) :
            /\ data = first \o EncSized(f, p, size) \o Sentinel(f)
            /\ written = [valid |-> size = Len(EncPayload(f, ty)),
                          count |-> 1 + Len(first), end |-> 0, size |-> size,
                          header |-> Len(first) + HeaderLen(f, p)]
            /\ name_table = f.table
            /\ framing = [is_asa |-> f.is_asa, worldsave_format |-> f.worldsave_format]
            /\ position = 0
            /\ properties = <<>>
            /\ last = [op |-> "new", arg |-> 0, pos0 |-> 0, st |-> "ok", val |-> <<>>]
            /\ source = NoSource
            /\ load = NoLoad

\* properties.append(prop), and the loop turns.  Of the list, which grows
\* without bound when the loop does not end, the first MaxKept entries are
\* kept.
LoopAppend ==
    /\ last.op = "read_property"
    /\ last.st = "ok"
    /\ last.val # <<>>
    /\ properties' = IF Len(properties) < MaxKept THEN Append(properties, last.val[1])
                     ELSE properties
    /\ last' = [last EXCEPT !.op = "append"]
    /\ UNCHANGED <<data, position, source, name_table, framing, written, load>>

LoopNext ==
    ReadProperty \/ LoopAppend \/ ReadPropertiesReturn \/ ReadPropertiesRaise

\* read_properties runs in one thread, which takes its next step whenever
\* it has one: what follows a read_property call is weakly fair, and the
\* loop does not rest at its top, where the call is always possible and
\* the only step (weak fairness of ReadProperty, with InLoop written for
\* ENABLED <<ReadProperty>>_vars).
SpecLoop ==
    /\ LoopInit
    /\ [][LoopNext]_vars
    /\ WF_vars(LoopAppend \/ ReadPropertiesReturn \/ ReadPropertiesRaise)
    /\ []<>(~InLoop)

\* C26: read_properties ends on every buffer, whatever the framing and
\* the data size of a header: after finitely many property reads it has
\* returned a list or raised.
C26_AsStated == <>(last.op = "read_properties")

\* The loop stands where it stood before: at the start of a property it
\* has already read.
C26_Again ==
    /\ InLoop
    /\ Len(properties) = MaxKept
    /\ position < written.header


\* ---------------------------------------------------------------------------
\* Bytes taken by a name read through a table
\* ---------------------------------------------------------------------------

\* The last call read a name through a list or dict table and returned it.
TableNameRead ==
    /\ last.st = "ok"
    /\ \/ last.op \in {"_read_name_from_list_table", "_read_name_from_dict_table",
                       "_read_ase_name_from_table", "_read_asa_name_from_table"}
       \/ last.op = "read_name" /\ name_table.kind # "none"

\* C27: every reader of a name through a name table leaves the reader 8
\* bytes further (index or key, then instance), whether the table holds
\* the name or not.
C27_AsStated == TableNameRead => position = last.pos0 + 8

\* The readers of WorldSave take the 8 bytes on a hit and on a miss.
C27_WorldSaveReaders ==
    (last.st = "ok" /\ last.op \in {"_read_ase_name_from_table", "_read_asa_name_from_table"})
        => position = last.pos0 + 8


\* ---------------------------------------------------------------------------
\* The array index after the flag byte, per property variant (world save)
\* ---------------------------------------------------------------------------

\* The dict table of the property streams, with the names a struct and an
\* enum need.
OverrideTable ==
    [kind |-> "dict",
     names |-> [k \in DOMAIN PropsDictTable.names \cup {300, 307, 314, 321} |->
                  CASE k = 300 -> <<83, 116, 114, 117, 99, 116, 80, 114, 111, 112, 101, 114, 116, 121>>
                    [] k = 307 -> <<73, 110, 116, 80, 111, 105, 110, 116>>
                    [] k = 314 -> <<69, 77, 121, 69, 110, 117, 109>>
                    [] k = 321 -> <<86, 97, 108, 117, 101, 65>>
                    [] OTHER -> PropsDictTable.names[k]]]

\* The variants that carry the flag byte: the simple types (with the raw
\* ByteProperty), the enum ByteProperty and the StructProperty.
OverrideVariants ==
    { [kind |-> "simple", type |-> TypeList[i]] : i \in 1..Len(TypeList) }
      \cup {[kind |-> "enum", type |-> <<66, 121, 116, 101, 80, 114, 111, 112, 101, 114, 116, 121>>],
            [kind |-> "struct", type |-> <<83, 116, 114, 117, 99, 116, 80, 114, 111, 112, 101, 114, 116, 121>>]}

\* The flag byte and the index after it.
EncFlag(arr) == IF arr # 0 THEN <<1>> \o EncI32(arr) ELSE <<0>>

\* One property named Ab with array index arr written after its flag.
EncOverride(v, arr) ==
    CASE v.kind = "simple" ->
           EncProperty(WorldSaveFraming, [type |-> v.type, name |-> <<65, 98>>, arr |-> arr])
      [] v.kind = "enum" ->
           EncName(WorldSaveFraming, <<65, 98>>) \o EncName(WorldSaveFraming, <<66, 121, 116, 101, 80, 114, 111, 112, 101, 114, 116, 121>>)
             \o EncI32(1) \o Ref(314, 0) \o EncI32(1) \o Ref(0, 0) \o EncI32(0)
             \o EncI32(8) \o EncFlag(arr) \o Ref(321, 0)
      [] v.kind = "struct" ->
           EncName(WorldSaveFraming, <<65, 98>>) \o Ref(300, 0)
             \o EncI32(1) \o EncI32(307) \o Zeros(20)
             \o EncI32(8) \o EncFlag(arr) \o EncI32(5) \o EncI32(6)

OverrideInit ==
    \E v \in OverrideVariants, arr \in {0, 3, 0 - 2}, cut \in BOOLEAN :
        /\ data = IF cut THEN DropLast(EncOverride(v, arr) \o Sentinel(WorldSaveFraming), 10)
                  ELSE EncOverride(v, arr) \o Sentinel(WorldSaveFraming)
        /\ written = [valid |-> ~cut, count |-> 1, end |-> Len(EncOverride(v, arr)),
                      variant |-> v, arr |-> arr]
        /\ name_table = OverrideTable
        /\ framing = [is_asa |-> TRUE, worldsave_format |-> TRUE]
        /\ position = 0
        /\ properties = <<>>
        /\ last = [op |-> "new", arg |-> 0, pos0 |-> 0, st |-> "ok", val |-> <<>>]
        /\ source = NoSource
        /\ load = NoLoad

SpecOverride == OverrideInit /\ [][PropsNext]_vars

\* read_property has been called on a whole property whose flag has bit 0
\* set.
OverrideRead ==
    last.op = "read_property" /\ last.pos0 = 0 /\ written.valid /\ written.arr # 0

\* C28: in Modern world-save framing, when bit 0 of the flag byte is set,
\* the int32 after the flag is consumed and is the index of the property
\* that is emitted, for every variant with a flag byte.
C28_AsStated ==
    OverrideRead =>
        /\ FirstRead
        /\ position = written.end
        /\ last.val[1].index = written.arr

\* The variants for which it is so: all but the ObjectProperty and the two
\* forms of ByteProperty.
C28_OtherVariants ==
    (OverrideRead /\ written.variant.type \notin {<<79, 98, 106, 101, 99, 116, 80, 114, 111, 112, 101, 114, 116, 121>>, <<66, 121, 116, 101, 80, 114, 111, 112, 101, 114, 116, 121>>})
        => /\ FirstRead
           /\ position = written.end
           /\ last.val[1].index = written.arr


\* ---------------------------------------------------------------------------
\* Where the reader stands after a world-save MapProperty
\* ---------------------------------------------------------------------------

MaxMapEntries == 2

MapTable ==
    [kind |-> "dict",
     names |-> [k \in DOMAIN OverrideTable.names \cup {328} |->
                  IF k = 328 THEN <<77, 97, 112, 80, 114, 111, 112, 101, 114, 116, 121>> ELSE OverrideTable.names[k]]]

MapFraming == [is_asa |-> TRUE, worldsave_format |-> TRUE, table |-> MapTable]

MapKeyTypes == {<<78, 97, 109, 101, 80, 114, 111, 112, 101, 114, 116, 121>>, <<79, 98, 106, 101, 99, 116, 80, 114, 111, 112, 101, 114, 116, 121>>, <<73, 110, 116, 80, 114, 111, 112, 101, 114, 116, 121>>}
MapValueTypes == {<<83, 116, 114, 117, 99, 116, 80, 114, 111, 112, 101, 114, 116, 121>>, <<73, 110, 116, 80, 114, 111, 112, 101, 114, 116, 121>>, <<78, 97, 109, 101, 80, 114, 111, 112, 101, 114, 116, 121>>}

\* A key: a name reference; a 16-byte GUID and one byte; an int32.
EncMapKey(kt) ==
    CASE kt = <<78, 97, 109, 101, 80, 114, 111, 112, 101, 114, 116, 121>> -> EncName(MapFraming, <<65, 98>>)
      [] kt = <<79, 98, 106, 101, 99, 116, 80, 114, 111, 112, 101, 114, 116, 121>> -> [i \in 1..16 |-> i] \o <<0>>
      [] OTHER -> EncI32(7)

\* A value: a property list with its sentinel; an int32; a name reference.
EncMapValue(vt) ==
    CASE vt = <<83, 116, 114, 117, 99, 116, 80, 114, 111, 112, 101, 114, 116, 121>> ->
           EncProperty(MapFraming, [type |-> <<73, 110, 116, 80, 114, 111, 112, 101, 114, 116, 121>>, name |-> <<67, 100>>, arr |-> 0])
             \o Sentinel(MapFraming)
      [] vt = <<78, 97, 109, 101, 80, 114, 111, 112, 101, 114, 116, 121>> -> EncName(MapFraming, <<67, 100>>)
      [] OTHER -> EncI32(9)

RECURSIVE EncMapEntries(_, _, _)
EncMapEntries(kt, vt, n) ==
    IF n = 0 THEN <<>> ELSE EncMapKey(kt) \o EncMapValue(vt) \o EncMapEntries(kt, vt, n - 1)

\* Name, type, the marker 2, the key type and the value type with what
\* follows them, the data size, the flag and the two counts.
EncMapHead(kt, vt, size, n) ==
    EncName(MapFraming, <<65, 98>>) \o Ref(328, 0) \o EncI32(2)
      \o EncName(MapFraming, kt) \o EncI32(0)
      \o (IF vt = <<83, 116, 114, 117, 99, 116, 80, 114, 111, 112, 101, 114, 116, 121>>
          THEN Ref(300, 0) \o EncI32(1) \o Ref(307, 0) \o EncI32(1) \o Ref(0, 0) \o EncI32(0)
          ELSE EncName(MapFraming, vt) \o EncI32(0))
      \o EncI32(size) \o <<0>> \o EncI32(0) \o EncI32(n)

\* A map of 1..MaxMapEntries entries whose data size counts the two count
\* fields and the entries, or slack bytes more (then written as zeros).
MapInit ==
    \E kt \in MapKeyTypes, vt \in MapValueTypes, n \in 1..MaxMapEntries,
       slack \in {0, 4}, cut \in BOOLEAN :
      \E size \in {8 + Len(EncMapEntries(kt, vt, n)) + slack} :
        /\ data = IF cut THEN DropLast(EncMapHead(kt, vt, size, n) \o EncMapEntries(kt, vt, n), 6)
                  ELSE EncMapHead(kt, vt, size, n) \o EncMapEntries(kt, vt, n)
                         \o Zeros(slack) \o Sentinel(MapFraming)
        /\ written = [valid |-> ~cut, count |-> n, end |-> 0,
                      after_counts |-> Len(EncMapHead(kt, vt, size, n)), size |-> size,
                      key_type |-> kt, value_type |-> vt, slack |-> slack]
        /\ name_table = MapTable
        /\ framing = [is_asa |-> TRUE, worldsave_format |-> TRUE]
        /\ position = 0
        /\ properties = <<>>
        /\ last = [op |-> "new", arg |-> 0, pos0 |-> 0, st |-> "ok", val |-> <<>>]
        /\ source = NoSource
        /\ load = NoLoad

SpecMap == MapInit /\ [][PropsNext]_vars

\* read_property has been called on a whole map.
MapRead == last.op = "read_property" /\ last.pos0 = 0 /\ written.valid

\* C29: after a Modern world-save MapProperty with at least one entry is
\* read, the reader stands at the end of the map's data, data size - 8
\* bytes after the two count fields, for every key and value type.
C29_AsStated ==
    MapRead =>
        /\ FirstRead
        /\ position = written.after_counts + written.size - 8

\* With struct values, name or object keys and an exact data size, the
\* reader ends there.
C29_StructValues ==
    (MapRead /\ written.value_type = <<83, 116, 114, 117, 99, 116, 80, 114, 111, 112, 101, 114, 116, 121>> /\ written.slack = 0
       /\ written.key_type # <<73, 110, 116, 80, 114, 111, 112, 101, 114, 116, 121>>)
        => /\ FirstRead
           /\ position = written.after_counts + written.size - 8


\* ---------------------------------------------------------------------------
\* The generation the framer selects and the one detect_format reports
\* ---------------------------------------------------------------------------

FramedKinds == {"profile", "tribe", "cloud"}

\* The bytes are given as such, or as a file named as its kind is.
FramedSources(kind) ==
    {NoSource,
     [kind |-> "path",
      suffix |-> CASE kind = "profile" -> DotArkprofile
                   [] kind = "tribe" -> DotArktribe
                   [] OTHER -> <<>>]}

\* The inputs of detect_format, read by the loader of each kind too.
AgreeInit ==
    \E kind \in FramedKinds :
        /\ data \in DetectInputs
        /\ source \in FramedSources(kind)
        /\ position = 0
        /\ last = [op |-> "new", arg |-> 0, pos0 |-> 0, st |-> "ok", val |-> <<>>]
        /\ name_table = NoTable
        /\ properties = <<>>
        /\ framing = NoFraming
        /\ written = NothingWritten
        /\ load = [NoLoad EXCEPT !.kind = kind, !.pc = "header"]

AgreeNext == ParseHeader \/ DetectFormat

SpecAgree == AgreeInit /\ [][AgreeNext]_vars

\* The loader has read the header (version accepted, generation selected)
\* and detect_format has answered on the same bytes.
BothAnswered == load.pc = "objects" /\ last.op = "detect_format"

\* C30: for every profile, tribe or cloud-inventory header whose version
\* the framer accepts, the generation ArkFile._detect_asa selects is the
\* one detect_format reports for the same bytes.
C30_AsStated ==
    BothAnswered => last.val = <<IF load.is_asa THEN "ASA" ELSE "ASE">>

\* From version 6 on, and on 24 bytes or more, the two agree.
C30_FromSix ==
    (BothAnswered /\ load.version >= AmbiguousVersion /\ Len(data) >= 24)
        => last.val = <<IF load.is_asa THEN "ASA" ELSE "ASE">>

=============================================================================
